---- MODULE Spec2Model ----
(***************************************************************************)
(* A model of gorq's query-plan builder (package plans), its filter        *)
(* algebra (package filters) and its SQL rendering.                        *)
(*                                                                         *)
(* A rendered SQL text is a sequence of tokens.  A token carries the text  *)
(* it contributes (s); a token produced by Dialect.BindVar(i) also carries *)
(* the index i it was produced for and the literal v it stands for, so     *)
(* that the text can be compared with the argument slice.  QueryText       *)
(* yields the SQL string itself.                                           *)
(***************************************************************************)
EXTENDS Integers, Sequences, FiniteSets, TLC

VARIABLES dialect, target, table, quotedTable, Errors, colMap, joins,
          filters, assignCols, assignBindVars, assignArgs, orderBy, groupBy,
          limit, offset, args, argLen, panicked, last, sinceJoin, iface,
          withTX, argLock, goroutines, distinctFields, forUpdate, forUpdateOf

vars == <<dialect, target, table, quotedTable, Errors, colMap, joins,
          filters, assignCols, assignBindVars, assignArgs, orderBy, groupBy,
          limit, offset, args, argLen, panicked, last, sinceJoin, iface,
          withTX, argLock, goroutines, distinctFields, forUpdate, forUpdateOf>>

(***************************************************************************)
(* Bounds of the exploration.                                              *)
(***************************************************************************)
MaxSub == 1
MaxJoins == 1
MaxFoldJoins == 2
MaxAssignCalls == 3
MaxAssigns == 1
MaxOrder == 1
MaxGroup == 1
MaxErrors == 2
MaxArgs == 2
MaxColumns == 6
MaxPlan == 2
MaxRun == 1
MaxCloseJoins == 2
MaxCloseSub == 2

(***************************************************************************)
(* Sequence helpers.                                                       *)
(***************************************************************************)
RECURSIVE Flatten(_)
Flatten(ss) == IF ss = <<>> THEN <<>> ELSE Head(ss) \o Flatten(Tail(ss))

RECURSIVE JoinWith(_, _)
JoinWith(ss, sep) ==
    IF ss = <<>> THEN <<>>
    ELSE IF Len(ss) = 1 THEN ss[1]
    ELSE ss[1] \o sep \o JoinWith(Tail(ss), sep)

(***************************************************************************)
(* Tokens and SQL text.                                                    *)
(***************************************************************************)
(* The element of a singleton set.  The({e : x \in {v}}) is e with x bound *)
(* to v: v is evaluated once however often e uses it.                      *)
The(S) == CHOOSE v \in S : TRUE

Txt(str) == <<[s |-> str, i |-> -1, v |-> 0]>>

IsBind(tok) == tok.i >= 0

RECURSIVE QueryText(_)
QueryText(toks) ==
    IF toks = <<>> THEN "" ELSE Head(toks).s \o QueryText(Tail(toks))

Binds(toks) == SelectSeq(toks, IsBind)

(***************************************************************************)
(* Values handed to the builder: a field pointer, a literal (any           *)
(* non-pointer Go value), a function wrapper or a CASE WHEN wrapper.       *)
(***************************************************************************)
Ptr(p) == [k |-> "ptr", p |-> p]
Lit(n) == [k |-> "lit", n |-> n]
NilValue == [k |-> "nil"]
Lower(value) == [k |-> "fn", functionName |-> "lower", actualValue |-> value]

(***************************************************************************)
(* The dialects: gorp.PostgresDialect (numbered placeholders, no Limit     *)
(* method) and dialects.SqliteDialect (unnumbered, non-standard Limit).    *)
(***************************************************************************)
Dialects == {"postgres", "sqlite"}

BindVarText(d, i) == IF d = "postgres" THEN "$" \o ToString(i + 1) ELSE "?"

BindVar(d, i, v) == <<[s |-> BindVarText(d, i), i |-> i, v |-> v]>>

QuoteField(name) == "\"" \o name \o "\""

QuotedTableForQuery(tableName) == QuoteField(tableName)

NonstandardLimiter(d) == d = "sqlite"

DialectLimit(bindVar) == Txt("limit ") \o bindVar

(***************************************************************************)
(* Package filters: constructors.                                          *)
(***************************************************************************)
NilFilter == [kind |-> "nil"]

filtersEqual(fieldPtr, value) ==
    [kind |-> "cmp", Left |-> fieldPtr, Comparison |-> "=", Right |-> value]

filtersLess(fieldPtr, value) ==
    [kind |-> "cmp", Left |-> fieldPtr, Comparison |-> "<", Right |-> value]

filtersIn(fieldPtr, values) ==
    [kind |-> "in", expression |-> fieldPtr, valueList |-> values]

filtersTrue(fieldPtr) == [kind |-> "true", field |-> fieldPtr]

filtersNull(fieldPtr) == [kind |-> "null", field |-> fieldPtr]

filtersNotNull(fieldPtr) == [kind |-> "notnull", field |-> fieldPtr]

filtersLike(fieldPtr, pattern) ==
    [kind |-> "cmp", Left |-> fieldPtr, Comparison |-> " like ", Right |-> pattern]

(* filters.Like, Equal, NotEqual, Less, LessOrEqual, Greater and           *)
(* GreaterOrEqual, by the name of the function.                            *)
ComparisonFilter(method, fieldPtr, value) ==
    [kind |-> "cmp", Left |-> fieldPtr,
     Comparison |-> CASE method = "Like" -> " like "
                      [] method = "Equal" -> "="
                      [] method = "NotEqual" -> "<>"
                      [] method = "Less" -> "<"
                      [] method = "LessOrEqual" -> "<="
                      [] method = "Greater" -> ">"
                      [] method = "GreaterOrEqual" -> ">=",
     Right |-> value]

(* The same functions in the earlier generation of package filters, which  *)
(* has no Like and gives Greater and GreaterOrEqual the comparison "=".    *)
ComparisonFilterSnapshot(method, fieldPtr, value) ==
    [kind |-> "cmp", Left |-> fieldPtr,
     Comparison |-> CASE method = "Equal" -> "="
                      [] method = "NotEqual" -> "<>"
                      [] method = "Less" -> "<"
                      [] method = "LessOrEqual" -> "<="
                      [] method = "Greater" -> "="
                      [] method = "GreaterOrEqual" -> "=",
     Right |-> value]

filtersNot(filter) == [kind |-> "not", filter |-> filter]

(* filters.ConvertTo: the filter with the type its value is converted to.  *)
(* The function is not part of the source tree; the filter it returns is   *)
(* taken to have the values of the filter it is given and to render as     *)
(* that filter followed by a cast to the type.                             *)
filtersConvertTo(filter, to) == [kind |-> "convert", filter |-> filter, to |-> to]

(* A negative test worded as a comparison of its own.                      *)
filtersFalseCompared(fieldPtr) ==
    [kind |-> "cmp", Left |-> fieldPtr, Comparison |-> "=", Right |-> Lit(0)]

filtersFalse(fieldPtr) == filtersNot(filtersTrue(fieldPtr))

filtersOr(fs) == [kind |-> "or", subFilters |-> fs]

filtersAnd(fs) == [kind |-> "and", subFilters |-> fs]

NewAndFilter == [kind |-> "and", subFilters |-> <<>>]

NewJoinFilter(joinType, quotedJoinTable, quotedAlias) ==
    [kind |-> "join", subFilters |-> <<>>, QuotedJoinTable |-> quotedJoinTable,
     Type |-> joinType, QuotedAlias |-> quotedAlias]

IsCombined(f) == f.kind \in {"and", "or", "join"}

(***************************************************************************)
(* Filter.ActualValues: the values of a filter, in rendering order.        *)
(***************************************************************************)
RECURSIVE ActualValues(_)
ActualValues(f) ==
    CASE f.kind = "cmp" -> <<f.Left, f.Right>>
      [] f.kind = "in" -> <<f.expression>> \o f.valueList
      [] f.kind \in {"true", "null", "notnull"} -> <<f.field>>
      [] f.kind \in {"not", "convert"} -> ActualValues(f.filter)
      [] f.kind = "ref" -> <<>>
      [] IsCombined(f) ->
            Flatten([n \in 1..Len(f.subFilters) |-> ActualValues(f.subFilters[n])])

(***************************************************************************)
(* Filter.Where: the SQL fragment of a filter, given one resolved string   *)
(* (token sequence) per actual value.                                      *)
(***************************************************************************)
RECURSIVE FilterWhere(_, _)
RECURSIVE CombinedWhere(_, _, _, _)
RECURSIVE CombinedWhereUnsliced(_, _, _, _)
(* A combinator that hands every sub-filter the values from the start.    *)
CombinedWhereUnsliced(subs, separator, values, index) ==
    IF subs = <<>> THEN <<>>
    ELSE LET n == Len(ActualValues(Head(subs)))
         IN  (IF index # 0 THEN Txt(separator) ELSE <<>>)
             \o FilterWhere(Head(subs), SubSeq(values, 1, n))
             \o CombinedWhereUnsliced(Tail(subs), separator, values, index + n)

CombinedWhere(subs, separator, values, index) ==
    IF subs = <<>> THEN <<>>
    ELSE LET n == Len(ActualValues(Head(subs)))
         IN  (IF index # 0 THEN Txt(separator) ELSE <<>>)
             \o FilterWhere(Head(subs), SubSeq(values, 1, n))
             \o CombinedWhere(Tail(subs), separator,
                              SubSeq(values, n + 1, Len(values)), index + n)

Separator(f) == IF f.kind = "or" THEN " or " ELSE " and "

(* A rendering that wraps every combinator that has sub-filters.           *)
FilterWhereAlwaysWrapped(f, values) ==
    CASE f.kind = "cmp" -> values[1] \o Txt(f.Comparison) \o values[2]
      [] f.kind = "in" ->
            values[1] \o Txt(" IN (") \o JoinWith(Tail(values), Txt(", ")) \o Txt(")")
      [] f.kind = "true" -> values[1]
      [] f.kind = "null" -> values[1] \o Txt(" is null")
      [] f.kind = "notnull" -> values[1] \o Txt(" is not null")
      [] f.kind = "not" -> Txt("not ") \o FilterWhere(f.filter, values)
      [] f.kind = "convert" -> FilterWhere(f.filter, values) \o Txt("::" \o f.to)
      [] f.kind = "ref" -> Txt(f.clause)
      [] IsCombined(f) ->
            (IF Len(f.subFilters) > 0 THEN Txt("(") ELSE <<>>)
            \o CombinedWhere(f.subFilters, Separator(f), values, 0)
            \o (IF Len(f.subFilters) > 0 THEN Txt(")") ELSE <<>>)

FilterWhere(f, values) ==
    CASE f.kind = "cmp" -> values[1] \o Txt(f.Comparison) \o values[2]
      [] f.kind = "in" ->
            values[1] \o Txt(" IN (") \o JoinWith(Tail(values), Txt(", ")) \o Txt(")")
      [] f.kind = "true" -> values[1]
      [] f.kind = "null" -> values[1] \o Txt(" is null")
      [] f.kind = "notnull" -> values[1] \o Txt(" is not null")
      [] f.kind = "not" -> Txt("not ") \o FilterWhere(f.filter, values)
      [] f.kind = "convert" -> FilterWhere(f.filter, values) \o Txt("::" \o f.to)
      [] f.kind = "ref" -> Txt(f.clause)
      [] IsCombined(f) ->
            (IF Len(f.subFilters) > 1 THEN Txt("(") ELSE <<>>)
            \o CombinedWhere(f.subFilters, Separator(f), values, 0)
            \o (IF Len(f.subFilters) > 1 THEN Txt(")") ELSE <<>>)

FilterAdd(f, fs) == [f EXCEPT !.subFilters = @ \o fs]

JoinClause(f, values) ==
    The({ IF QueryText(on) # "" THEN join \o Txt(" on ") \o on ELSE join
          : join \in {Txt(f.Type \o " join " \o f.QuotedJoinTable)
                      \o (IF f.QuotedAlias # "" /\ f.QuotedAlias # "-"
                          THEN Txt(" as " \o f.QuotedAlias) ELSE <<>>)},
            on \in {FilterWhere(f, values)} })

(***************************************************************************)
(* CASE WHEN wrapper (a MultiSqlWrapper).                                  *)
(***************************************************************************)
CaseWhen(whenValues, elseValue) ==
    [k |-> "case", whenValues |-> whenValues, elseValue |-> elseValue]

WhenThen(when, then) == [when |-> when, then |-> then]

(* A value list that starts with the ELSE value.                           *)
CaseActualValuesElseFirst(c) ==
    (IF c.elseValue # NilValue THEN <<c.elseValue>> ELSE <<>>)
    \o Flatten([n \in 1..Len(c.whenValues) |->
                  ActualValues(c.whenValues[n].when) \o <<c.whenValues[n].then>>])

CaseActualValues(c) ==
    Flatten([n \in 1..Len(c.whenValues) |->
                ActualValues(c.whenValues[n].when) \o <<c.whenValues[n].then>>])
    \o (IF c.elseValue # NilValue THEN <<c.elseValue>> ELSE <<>>)

RECURSIVE CaseWhens(_, _)
CaseWhens(whens, values) ==
    IF whens = <<>> THEN <<>>
    ELSE LET n == Len(ActualValues(Head(whens).when))
         IN  Txt(" WHEN ") \o FilterWhere(Head(whens).when, SubSeq(values, 1, n))
             \o Txt(" THEN ") \o values[n + 1]
             \o CaseWhens(Tail(whens), SubSeq(values, n + 2, Len(values)))

RECURSIVE CaseIdx(_)
CaseIdx(whens) ==
    IF whens = <<>> THEN 0
    ELSE Len(ActualValues(Head(whens).when)) + 1 + CaseIdx(Tail(whens))

CaseWrapSql(c, values) ==
    Txt("CASE") \o CaseWhens(c.whenValues, values)
    \o (IF c.elseValue # NilValue
        THEN Txt(" ELSE ") \o values[CaseIdx(c.whenValues) + 1] ELSE <<>>)
    \o Txt(" END")

FunctionWrapSql(w, sqlValue) == Txt(w.functionName \o "(") \o sqlValue \o Txt(")")

(***************************************************************************)
(* The mapped struct types (the table mapper's metadata) and the targets   *)
(* that can be handed to Query and Join.  There is one reference instance  *)
(* per struct type; the address of field F of the instance of type T is    *)
(* the pointer "T.F".  "X" is the address of an unrelated variable.        *)
(***************************************************************************)
NoTable == ""

RegisteredTypes == {"A", "B", "E", "T", "I", "V", "H"}

TableName(type) ==
    CASE type = "A" -> "a"
      [] type = "B" -> "b"
      [] type = "E" -> "e"
      [] type = "T" -> "t"
      [] type = "V" -> "v"
      [] type = "H" -> "h"
      [] OTHER -> "i"

Col(fieldName, columnName, transient, exported) ==
    [fieldName |-> fieldName, ColumnName |-> columnName,
     Transient |-> transient, exported |-> exported]

(* A: exported, transient and unexported fields; B: exported fields; E: no *)
(* field; T: transient fields only; I: unexported fields only; V: a        *)
(* transient field before an exported one; H: a struct with a method       *)
(* PostDirectUpdate.                                                       *)
TableColumns(type) ==
    CASE type = "A" ->
            <<Col("ID", "id", FALSE, TRUE), Col("Name", "name", FALSE, TRUE),
              Col("Tr", "-", TRUE, TRUE), Col("priv", "priv", FALSE, FALSE)>>
      [] type = "B" ->
            <<Col("AID", "aid", FALSE, TRUE), Col("Val", "val", FALSE, TRUE)>>
      [] type = "E" -> <<>>
      [] type = "T" -> <<Col("Tr", "-", TRUE, TRUE)>>
      [] type = "V" ->
            <<Col("Tr", "-", TRUE, TRUE), Col("Val", "val", FALSE, TRUE)>>
      [] type = "H" -> <<Col("Val", "val", FALSE, TRUE)>>
      [] OTHER -> <<Col("priv", "priv", FALSE, FALSE)>>

PtrStruct(type) == [kind |-> "ptr", elem |-> "struct", type |-> type]
PtrNonStruct == [kind |-> "ptr", elem |-> "int", type |-> ""]
NonPtr == [kind |-> "struct", elem |-> "", type |-> "A"]
NoTarget == [kind |-> "invalid", elem |-> "", type |-> ""]

FieldPtr(type, fieldName) == Ptr(type \o "." \o fieldName)

(***************************************************************************)
(* Errors.                                                                 *)
(***************************************************************************)
NoErr == "nil"
ErrTargetNotPtrToStruct == "A query target must be a pointer to struct"
ErrTargetsPtr == "All query targets must be pointer types"
ErrNoStruct == "gorp: Cannot create query plan - no struct found to map to"
ErrNoTable == "gorp: no table found for type"
ErrNoMappable == "No fields in the target struct are mappable."
ErrFieldNotFound == "gorp: Cannot find a field matching the passed in pointer"
ErrTransient == "gorp: Cannot run queries against transient columns"
ErrOrderByNoField ==
    "OrderBy requires a pointer to a struct field or a wrapper with at least one struct field pointer as an actual value."
ErrOrderByDirection ==
    "gorp: Order by direction must be empty string, \"asc\", or \"desc\""

(***************************************************************************)
(* structColumnMap: lookups by field address.                              *)
(***************************************************************************)
RECURSIVE joinMapIndex(_, _, _)
(* A search that stops at the first entry whatever its field.             *)
joinMapIndexFirst(structMap, fieldPtr, n) ==
    IF n > Len(structMap) THEN 0 ELSE n

joinMapIndex(structMap, fieldPtr, n) ==
    IF n > Len(structMap) THEN 0
    ELSE IF structMap[n].field = fieldPtr THEN n
    ELSE joinMapIndex(structMap, fieldPtr, n + 1)

(* A lookup that falls back to the first entry when no field matches.      *)
joinMapForPointerOrFirst(structMap, fieldPtr) ==
    The({ IF n = 0 /\ Len(structMap) = 0
          THEN [err |-> ErrFieldNotFound, idx |-> 0]
          ELSE [err |-> NoErr, idx |-> IF n = 0 THEN 1 ELSE n]
          : n \in {joinMapIndex(structMap, fieldPtr, 1)} })

joinMapForPointer(structMap, fieldPtr) ==
    The({ IF n = 0 THEN [err |-> ErrFieldNotFound, idx |-> 0]
          ELSE [err |-> NoErr, idx |-> n]
          : n \in {joinMapIndex(structMap, fieldPtr, 1)} })

(* A lookup that lets transient columns through.                          *)
fieldMapForPointerAnyColumn(structMap, fieldPtr) ==
    joinMapForPointer(structMap, fieldPtr)

fieldMapForPointer(structMap, fieldPtr) ==
    The({ IF m.err # NoErr THEN m
          ELSE IF structMap[m.idx].column.Transient
                  /\ structMap[m.idx].field = structMap[m.idx].selectTarget
          THEN [err |-> ErrTransient, idx |-> 0]
          ELSE m
          : m \in {joinMapForPointer(structMap, fieldPtr)} })

LocateColumn(structMap, fieldPtr) ==
    The({ IF m.err # NoErr THEN [err |-> m.err, column |-> ""]
          ELSE [err |-> NoErr, column |-> structMap[m.idx].quotedColumn]
          : m \in {fieldMapForPointer(structMap, fieldPtr)} })

LocateTableAndColumn(structMap, fieldPtr) ==
    The({ IF m.err # NoErr THEN [err |-> m.err, column |-> ""]
          ELSE [err |-> NoErr,
                column |-> structMap[m.idx].quotedTable \o "."
                           \o structMap[m.idx].quotedColumn]
          : m \in {fieldMapForPointer(structMap, fieldPtr)} })

(***************************************************************************)
(* QueryPlan.mapColumns and QueryPlan.mapTable.                            *)
(***************************************************************************)
fieldColumnMap(type, col, prefix) ==
    [field |-> FieldPtr(type, col.fieldName),
     selectTarget |-> FieldPtr(type, col.fieldName),
     column |-> col,
     alias |-> prefix \o col.ColumnName,
     prefix |-> prefix,
     quotedTable |-> QuotedTableForQuery(TableName(type)),
     quotedColumn |-> QuoteField(col.ColumnName),
     doSelect |-> (~col.Transient) /\ prefix # "-"]

(* mapColumns counting the transient columns as queryable.                 *)
mapColumnsCountingTransient(structMap, type, prefix) ==
    LET cols == SelectSeq(TableColumns(type), LAMBDA c : c.exported)
    IN  [err |-> IF Len(cols) = 0 THEN ErrNoMappable ELSE NoErr,
         colMap |-> structMap \o [n \in 1..Len(cols) |->
                                    fieldColumnMap(type, cols[n], prefix)]]

mapColumns(structMap, type, prefix) ==
    LET cols == SelectSeq(TableColumns(type), LAMBDA c : c.exported)
        queryableFields == Len(SelectSeq(cols, LAMBDA c : ~c.Transient))
    IN  [err |-> IF queryableFields = 0 THEN ErrNoMappable ELSE NoErr,
         colMap |-> structMap \o [n \in 1..Len(cols) |->
                                    fieldColumnMap(type, cols[n], prefix)]]

mapTable(structMap, planTable, targetVal) ==
    IF targetVal.kind # "ptr"
    THEN [err |-> ErrTargetsPtr, table |-> NoTable, alias |-> "", colMap |-> structMap]
    ELSE IF targetVal.elem # "struct"
    THEN [err |-> ErrNoStruct, table |-> NoTable, alias |-> "", colMap |-> structMap]
    ELSE IF targetVal.type \notin RegisteredTypes
    THEN [err |-> ErrNoTable, table |-> NoTable, alias |-> "", colMap |-> structMap]
    ELSE LET prefix == IF planTable # NoTable THEN "-" ELSE ""
             m == mapColumns(structMap, targetVal.type, prefix)
         IN  IF m.err # NoErr
             THEN [err |-> m.err, table |-> NoTable, alias |-> "", colMap |-> m.colMap]
             ELSE [err |-> NoErr, table |-> TableName(targetVal.type),
                   alias |-> prefix, colMap |-> m.colMap]

(***************************************************************************)
(* QueryPlan.argOrColumn: the string that stands for a value in a query.   *)
(* A field pointer resolves to its quoted table.column; any other value    *)
(* becomes a bind variable numbered by the current length of the argument  *)
(* list and is appended to it.  as is the argument list so far; the result *)
(* carries the argument list afterwards (also when resolution failed).     *)
(***************************************************************************)
RECURSIVE argOrColumn(_, _)
RECURSIVE resolveAll(_, _)
resolveAll(values, as) ==
    IF values = <<>> THEN [err |-> NoErr, sqls |-> <<>>, args |-> as]
    ELSE The({
           IF r.err # NoErr THEN [err |-> r.err, sqls |-> <<>>, args |-> r.args]
           ELSE The({ [err |-> rest.err,
                       sqls |-> IF rest.err # NoErr THEN <<>>
                                ELSE <<r.sql>> \o rest.sqls,
                       args |-> rest.args]
                      : rest \in {resolveAll(Tail(values), r.args)} })
           : r \in {argOrColumn(Head(values), as)} })

argOrColumn(value, as) ==
    CASE value.k = "fn" ->
            The({ IF r.err # NoErr
                  THEN [err |-> r.err, sql |-> <<>>, args |-> r.args]
                  ELSE [err |-> NoErr, sql |-> FunctionWrapSql(value, r.sql),
                        args |-> r.args]
                  : r \in {argOrColumn(value.actualValue, as)} })
      [] value.k = "case" ->
            The({ IF r.err # NoErr
                  THEN [err |-> r.err, sql |-> <<>>, args |-> r.args]
                  ELSE [err |-> NoErr, sql |-> CaseWrapSql(value, r.sqls),
                        args |-> r.args]
                  : r \in {resolveAll(CaseActualValues(value), as)} })
      [] value.k = "ptr" ->
            The({ IF m.err # NoErr THEN [err |-> m.err, sql |-> <<>>, args |-> as]
                  ELSE IF colMap[m.idx].selectTarget # colMap[m.idx].field
                  THEN argOrColumn(colMap[m.idx].selectTarget, as)
                  ELSE [err |-> NoErr,
                        sql |-> Txt(colMap[m.idx].quotedTable \o "."
                                    \o colMap[m.idx].quotedColumn),
                        args |-> as]
                  : m \in {fieldMapForPointer(colMap, value)} })
      [] value.k = "lit" ->
            [err |-> NoErr, sql |-> BindVar(dialect, Len(as), value.n),
             args |-> Append(as, value.n)]

(***************************************************************************)
(* order.OrderBy: one entry of the ORDER BY clause.  Literals among the    *)
(* actual values of a wrapper become bind variables numbered from bindIdx  *)
(* and are returned as params.                                             *)
(***************************************************************************)
Order(fieldOrWrapper, direction) ==
    [fieldOrWrapper |-> fieldOrWrapper, direction |-> direction]

(* strings.ToLower, on every spelling of "asc" and of "desc", on the       *)
(* spellings of "sideways" that are used, and on strings that hold no      *)
(* capital letter.                                                         *)
Spellings_asc ==
    {"ASC", "ASc", "AsC", "Asc", "aSC", "aSc", "asC", "asc"}

Spellings_desc ==
    {"DESC", "DESc", "DEsC", "DEsc", "DeSC", "DeSc", "DesC", "Desc",
     "dESC", "dESc", "dEsC", "dEsc", "deSC", "deSc", "desC", "desc"}

ToLower(str) ==
    CASE str \in Spellings_asc -> "asc"
      [] str \in Spellings_desc -> "desc"
      [] str \in {"sideways", "Sideways", "SIDEWAYS"} -> "sideways"
      [] OTHER -> str

(* The loop over allFields.  A field pointer and a *CaseWhen are of kind   *)
(* reflect.Ptr and are looked up in the column map; any other value        *)
(* becomes a bind variable and is itself the parameter: the number of a    *)
(* literal, the functionWrapper struct of a wrapper (not its actual        *)
(* value).                                                                 *)
RECURSIVE orderFields(_, _)
orderFields(allFields, bindIdx) ==
    IF allFields = <<>>
    THEN [err |-> NoErr, cols |-> <<>>, params |-> <<>>, fieldFound |-> FALSE]
    ELSE IF Head(allFields).k \in {"ptr", "case"}
    THEN The({
           IF c.err # NoErr
           THEN [err |-> c.err, cols |-> <<>>, params |-> <<>>,
                 fieldFound |-> FALSE]
           ELSE The({ [err |-> rest.err,
                       cols |-> <<Txt(c.column)>> \o rest.cols,
                       params |-> rest.params,
                       fieldFound |-> TRUE]
                      : rest \in {orderFields(Tail(allFields), bindIdx)} })
           : c \in {LocateTableAndColumn(colMap, Head(allFields))} })
    ELSE The({ [err |-> rest.err,
                cols |-> <<BindVar(dialect, bindIdx, n)>> \o rest.cols,
                params |-> <<n>> \o rest.params,
                fieldFound |-> rest.fieldFound]
               : rest \in {orderFields(Tail(allFields), bindIdx + 1)},
                 n \in {IF Head(allFields).k = "lit"
                        THEN Head(allFields).n ELSE Head(allFields)} })

OrderBySql(o, bindIdx) ==
    The({
      IF r.err # NoErr THEN [err |-> r.err, sql |-> <<>>, params |-> <<>>]
      ELSE IF ~r.fieldFound
      THEN [err |-> ErrOrderByNoField, sql |-> <<>>, params |-> <<>>]
      ELSE IF direction \in {"asc", "desc"}
      THEN [err |-> NoErr,
            sql |-> (CASE w.k = "fn" -> FunctionWrapSql(w, r.cols[1])
                       [] w.k = "case" -> CaseWrapSql(w, r.cols)
                       [] OTHER -> r.cols[1])
                    \o Txt(" " \o direction),
            params |-> r.params]
      ELSE IF direction = ""
      THEN [err |-> NoErr,
            sql |-> CASE w.k = "fn" -> FunctionWrapSql(w, r.cols[1])
                      [] w.k = "case" -> CaseWrapSql(w, r.cols)
                      [] OTHER -> r.cols[1],
            params |-> r.params]
      ELSE [err |-> ErrOrderByDirection, sql |-> <<>>, params |-> <<>>]
      : w \in {o.fieldOrWrapper},
        direction \in {ToLower(o.direction)},
        r \in {orderFields(CASE o.fieldOrWrapper.k = "fn" ->
                                  <<o.fieldOrWrapper.actualValue>>
                             [] o.fieldOrWrapper.k = "case" ->
                                  CaseActualValues(o.fieldOrWrapper)
                             [] OTHER -> <<o.fieldOrWrapper>>,
                           bindIdx)} })

(***************************************************************************)
(* Rendering of the clauses.  Each operator takes the argument list so far *)
(* and returns the rendered tokens and the argument list afterwards.       *)
(***************************************************************************)
whereClause(f, as) ==
    IF f = NilFilter THEN [err |-> NoErr, sql |-> <<>>, args |-> as]
    ELSE The({
           IF r.err # NoErr THEN [err |-> r.err, sql |-> <<>>, args |-> r.args]
           ELSE The({ [err |-> NoErr,
                       sql |-> IF QueryText(where) # ""
                               THEN Txt(" where ") \o where ELSE <<>>,
                       args |-> r.args]
                      : where \in {FilterWhere(f, r.sqls)} })
           : r \in {resolveAll(ActualValues(f), as)} })

RECURSIVE selectJoinClause(_, _)
selectJoinClause(js, as) ==
    IF js = <<>> THEN [err |-> NoErr, sql |-> <<>>, args |-> as]
    ELSE The({
           IF r.err # NoErr THEN [err |-> r.err, sql |-> <<>>, args |-> r.args]
           ELSE The({ [err |-> rest.err,
                       sql |-> IF rest.err # NoErr THEN <<>>
                               ELSE Txt(" ") \o JoinClause(Head(js), r.sqls)
                                    \o rest.sql,
                       args |-> rest.args]
                      : rest \in {selectJoinClause(Tail(js), r.args)} })
           : r \in {resolveAll(ActualValues(Head(js)), as)} })

RECURSIVE joinFromAndWhereClause(_, _)
joinFromAndWhereClause(js, as) ==
    IF js = <<>>
    THEN [err |-> NoErr, from |-> <<>>, where |-> <<>>, args |-> as]
    ELSE The({
           IF r.err # NoErr
           THEN [err |-> r.err, from |-> <<>>, where |-> <<>>, args |-> r.args]
           ELSE The({ [err |-> rest.err,
                       from |-> <<Head(js).QuotedJoinTable>> \o rest.from,
                       where |-> FilterWhere(Head(js), r.sqls) \o rest.where,
                       args |-> rest.args]
                      : rest \in {joinFromAndWhereClause(Tail(js), r.args)} })
           : r \in {resolveAll(ActualValues(Head(js)), as)} })

RECURSIVE selectColumns(_, _, _)
selectColumns(index, as, buffer) ==
    IF index > Len(colMap) THEN [err |-> NoErr, sql |-> buffer, args |-> as]
    ELSE IF ~colMap[index].doSelect THEN selectColumns(index + 1, as, buffer)
    ELSE The({
           IF r.err # NoErr
           THEN [err |-> r.err, sql |-> buffer, args |-> r.args]
           ELSE selectColumns(index + 1, r.args,
                   buffer \o (IF index # 1 THEN Txt(",") ELSE <<>>)
                   \o r.sql
                   \o (IF m.alias # "" THEN Txt(" AS " \o m.alias) ELSE <<>>))
           : m \in {colMap[index]},
             r \in {IF colMap[index].selectTarget = colMap[index].field
                    THEN [err |-> NoErr,
                          sql |-> Txt(colMap[index].quotedTable \o "."
                                      \o colMap[index].quotedColumn),
                          args |-> as]
                    ELSE IF colMap[index].selectTarget.k \in {"fn", "case"}
                    THEN argOrColumn(colMap[index].selectTarget, as)
                    ELSE argOrColumn(colMap[index].field, as)} })

(* The DISTINCT ON list of writeSelectColumns: the first field, then,     *)
(* when there are more fields than one, every field after a comma.         *)
distinctOn(as) ==
    IF distinctFields = <<>> THEN [err |-> NoErr, sql |-> <<>>, args |-> as]
    ELSE The({
           IF name.err # NoErr
           THEN [err |-> name.err, sql |-> <<>>, args |-> name.args]
           ELSE IF Len(distinctFields) = 1
           THEN [err |-> NoErr,
                 sql |-> Txt("distinct on (") \o name.sql \o Txt(") "),
                 args |-> name.args]
           ELSE The({ [err |-> names.err,
                       sql |-> IF names.err # NoErr THEN <<>>
                               ELSE Txt("distinct on (") \o name.sql
                                    \o Flatten([n \in 1..Len(names.sqls) |->
                                                  Txt(",") \o names.sqls[n]])
                                    \o Txt(") "),
                       args |-> names.args]
                      : names \in {resolveAll(distinctFields, name.args)} })
           : name \in {argOrColumn(distinctFields[1], as)} })

writeSelectColumns(as) ==
    IF Len(Errors) > 0
    THEN [err |-> Errors[1], renderErr |-> NoErr, sql |-> <<>>, args |-> as]
    ELSE The({
           IF d.err # NoErr
           THEN [err |-> d.err, renderErr |-> d.err, sql |-> <<>>,
                 args |-> d.args]
           ELSE The({ [err |-> r.err, renderErr |-> r.err, sql |-> r.sql,
                       args |-> r.args]
                      : r \in {selectColumns(1, d.args,
                                             Txt("select ") \o d.sql)} })
           : d \in {distinctOn(as)} })

RECURSIVE orderByClause(_, _, _)
orderByClause(obs, as, first) ==
    IF obs = <<>> THEN [err |-> NoErr, sql |-> <<>>, args |-> as]
    ELSE The({
           IF r.err # NoErr THEN [err |-> r.err, sql |-> <<>>, args |-> as]
           ELSE The({ [err |-> rest.err,
                       sql |-> IF rest.err # NoErr THEN <<>>
                               ELSE Txt(IF first THEN " order by " ELSE ", ")
                                    \o r.sql \o rest.sql,
                       args |-> rest.args]
                      : rest \in {orderByClause(Tail(obs), as \o r.params,
                                                FALSE)} })
           : r \in {OrderBySql(Head(obs), Len(as))} })

RECURSIVE groupByClause(_, _)
groupByClause(gs, first) ==
    IF gs = <<>> THEN <<>>
    ELSE Txt(IF first THEN " group by " ELSE ", ") \o Txt(Head(gs))
         \o groupByClause(Tail(gs), FALSE)

(* limitOffsetClause with the limit bound before the offset on every        *)
(* dialect.                                                                *)
limitOffsetClauseLimitFirst(as) ==
    The({ IF offset > 0
          THEN [sql |-> a1.sql \o Txt(" offset ")
                        \o BindVar(dialect, Len(a1.args), offset),
                args |-> Append(a1.args, offset)]
          ELSE a1
          : a1 \in {IF limit > 0
                    THEN [sql |-> Txt(" ")
                                  \o DialectLimit(BindVar(dialect, Len(as), limit)),
                          args |-> Append(as, limit)]
                    ELSE [sql |-> <<>>, args |-> as]} })

(* limitOffsetClause with the limit clause of the dialect, in either form, *)
(* before the offset.                                                      *)
limitOffsetClauseOffsetLast(as) ==
    The({ IF offset > 0
          THEN [sql |-> a1.sql \o Txt(" offset ")
                        \o BindVar(dialect, Len(a1.args), offset),
                args |-> Append(a1.args, offset)]
          ELSE a1
          : a1 \in {IF limit > 0 /\ NonstandardLimiter(dialect)
                    THEN [sql |-> Txt(" ")
                                  \o DialectLimit(BindVar(dialect, Len(as), limit)),
                          args |-> Append(as, limit)]
                    ELSE IF limit > 0
                    THEN [sql |-> Txt(" fetch next (")
                                  \o BindVar(dialect, Len(as), limit)
                                  \o Txt(") rows only"),
                          args |-> Append(as, limit)]
                    ELSE [sql |-> <<>>, args |-> as]} })

limitOffsetClause(as) ==
    The({
      The({ IF limit > 0 /\ ~NonstandardLimiter(dialect)
            THEN [sql |-> a2.sql \o Txt(" fetch next (")
                          \o BindVar(dialect, Len(a2.args), limit)
                          \o Txt(") rows only"),
                  args |-> Append(a2.args, limit)]
            ELSE a2
            : a2 \in {IF offset > 0
                      THEN [sql |-> a1.sql \o Txt(" offset ")
                                    \o BindVar(dialect, Len(a1.args), offset),
                            args |-> Append(a1.args, offset)]
                      ELSE a1} })
      : a1 \in {IF limit > 0 /\ NonstandardLimiter(dialect)
                THEN [sql |-> Txt(" ")
                              \o DialectLimit(BindVar(dialect, Len(as), limit)),
                      args |-> Append(as, limit)]
                ELSE [sql |-> <<>>, args |-> as]} })

(***************************************************************************)
(* QueryPlan.storeJoin: an open join filter moves to the joins list.       *)
(* storedJoinsWithoutConditions is storeJoin losing the conditions of the  *)
(* join filter it stores.                                                  *)
(***************************************************************************)
storedJoinsWithoutConditions ==
    IF filters.kind = "join"
    THEN Append(joins, [filters EXCEPT !.subFilters = <<>>]) ELSE joins

storedJoins == IF filters.kind = "join" THEN Append(joins, filters) ELSE joins

storedFilters == IF filters.kind = "join" THEN NilFilter ELSE filters

(* A suffix that writes the WHERE clause before the joins.                 *)
writeSelectSuffixWhereFirst(as) ==
    The({
      IF j.err # NoErr THEN [err |-> j.err, sql |-> <<>>, args |-> j.args]
      ELSE The({
        IF w.err # NoErr THEN [err |-> w.err, sql |-> <<>>, args |-> w.args]
        ELSE The({
          IF o.err # NoErr THEN [err |-> o.err, sql |-> <<>>, args |-> o.args]
          ELSE The({
            [err |-> NoErr,
             sql |-> Txt(" from " \o quotedTable) \o w.sql \o j.sql \o o.sql
                     \o groupByClause(groupBy, TRUE) \o l.sql,
             args |-> l.args]
            : l \in {limitOffsetClause(o.args)} })
          : o \in {orderByClause(orderBy, w.args, TRUE)} })
        : w \in {whereClause(storedFilters, j.args)} })
      : j \in {selectJoinClause(storedJoins, as)} })

(* A suffix that binds the WHERE literals before the JOIN-ON literals and   *)
(* the limit before the offset on every dialect.                           *)
writeSelectSuffixAsClaimed(as) ==
    The({
      IF w.err # NoErr THEN [err |-> w.err, sql |-> <<>>, args |-> w.args]
      ELSE The({
        IF j.err # NoErr THEN [err |-> j.err, sql |-> <<>>, args |-> j.args]
        ELSE The({
          IF o.err # NoErr THEN [err |-> o.err, sql |-> <<>>, args |-> o.args]
          ELSE The({
            [err |-> NoErr,
             sql |-> Txt(" from " \o quotedTable) \o j.sql \o w.sql \o o.sql
                     \o groupByClause(groupBy, TRUE) \o l.sql,
             args |-> l.args]
            : l \in {limitOffsetClauseLimitFirst(o.args)} })
          : o \in {orderByClause(orderBy, j.args, TRUE)} })
        : j \in {selectJoinClause(storedJoins, w.args)} })
      : w \in {whereClause(storedFilters, as)} })

(* writeSelectSuffix, after storeJoin: FROM, JOINs, WHERE, ORDER BY,       *)
(* GROUP BY, LIMIT/OFFSET.                                                 *)
writeSelectSuffix(as) ==
    The({
      IF j.err # NoErr THEN [err |-> j.err, sql |-> <<>>, args |-> j.args]
      ELSE The({
        IF w.err # NoErr THEN [err |-> w.err, sql |-> <<>>, args |-> w.args]
        ELSE The({
          IF o.err # NoErr THEN [err |-> o.err, sql |-> <<>>, args |-> o.args]
          ELSE The({
            [err |-> NoErr,
             sql |-> Txt(" from " \o quotedTable) \o j.sql \o w.sql \o o.sql
                     \o groupByClause(groupBy, TRUE) \o l.sql,
             args |-> l.args]
            : l \in {limitOffsetClause(o.args)} })
          : o \in {orderByClause(orderBy, w.args, TRUE)} })
        : w \in {whereClause(storedFilters, j.args)} })
      : j \in {selectJoinClause(storedJoins, as)} })

(***************************************************************************)
(* Query: the plan after construction.                                     *)
(***************************************************************************)
Query(targetVal) ==
    LET errs == IF targetVal.kind # "ptr" \/ targetVal.elem # "struct"
                THEN <<ErrTargetNotPtrToStruct>> ELSE <<>>
        m == mapTable(<<>>, NoTable, targetVal)
    IN  IF m.err # NoErr
        THEN [Errors |-> Append(errs, m.err), target |-> NoTarget,
              table |-> NoTable, quotedTable |-> "", colMap |-> m.colMap]
        ELSE [Errors |-> errs, target |-> targetVal, table |-> m.table,
              quotedTable |-> QuotedTableForQuery(m.table), colMap |-> m.colMap]

NoCall ==
    [op |-> "none", err |-> NoErr, renderErr |-> NoErr, exec |-> "none",
     query |-> <<>>, qargs |-> <<>>]

(***************************************************************************)
(* DbMap.WithTX.  withTX is the state of one call of WithTX: where it is   *)
(* (pc), how often the handler fn was called (calls), which of Begin,      *)
(* Commit and Rollback were called on the transaction and with what        *)
(* outcome (tx), and how the call ended (result).  NoTX: not called.       *)
(***************************************************************************)
NoTX == [pc |-> "idle", calls |-> 0, tx |-> "none", commits |-> 0,
         rollbacks |-> 0, handler |-> "none", result |-> "none"]

(***************************************************************************)
(* plan.argLock, a sync.RWMutex: the number of read locks held and whether *)
(* the write lock is held.                                                 *)
(***************************************************************************)
Unlocked == [readers |-> 0, writer |-> FALSE]

(***************************************************************************)
(* The goroutines that use the plan's arguments: readers, each in a call   *)
(* of getArgs, and the goroutine that runs the plan (the writer), in a     *)
(* terminal call or a call of ArgOrColumn.  For a reader, n is the length  *)
(* of the slice it made, result the slice it returns and seen the argument *)
(* lists the plan held between two writes since the call began; committed  *)
(* is the list left by the last completed write.  For the writer, op is    *)
(* the method it is in, out what the call will hand back and todo the      *)
(* calls of resetArgs, getArgs and appendArgs still ahead of it, the       *)
(* first of them under way.                                                *)
(***************************************************************************)
Readers == {"r1"}

IdleWriter ==
    [pc |-> "idle", op |-> "none", todo |-> <<>>,
     out |-> [panic |-> "", err |-> "nil", renderErr |-> "nil",
              exec |-> "none", query |-> <<>>, qargs |-> <<>>, args |-> <<>>,
              stored |-> FALSE]]

NoGoroutines ==
    [reader |-> [r \in Readers |->
                    [pc |-> "idle", n |-> 0, result |-> <<>>, seen |-> {}]],
     writer |-> IdleWriter,
     committed |-> <<>>]

InitPlan(targetVal) ==
    LET plan == Query(targetVal)
    IN  /\ Errors = plan.Errors
        /\ target = plan.target
        /\ table = plan.table
        /\ quotedTable = plan.quotedTable
        /\ colMap = plan.colMap
        /\ joins = <<>>
        /\ filters = NilFilter
        /\ assignCols = <<>>
        /\ assignBindVars = <<>>
        /\ assignArgs = <<>>
        /\ orderBy = <<>>
        /\ groupBy = <<>>
        /\ limit = 0
        /\ offset = 0
        /\ args = <<>>
        /\ argLen = 0
        /\ panicked = ""
        /\ last = NoCall
        /\ sinceJoin = <<>>
        /\ argLock = Unlocked
        /\ goroutines = NoGoroutines
        /\ distinctFields = <<>>
        /\ forUpdate = FALSE
        /\ forUpdateOf = ""

(***************************************************************************)
(* The interfaces of the builder.  iface is the static type of the value   *)
(* the caller makes its next call on: an interface, when the caller chains *)
(* each call on the result of the one before, or "*QueryPlan", when the    *)
(* caller holds the plan itself and calls its methods in any order.        *)
(* Methods is the method set of an interface, Returns the interface a      *)
(* fluent method of it returns.                                            *)
(***************************************************************************)
Comparisons ==
    {"Equal", "NotEqual", "Less", "LessOrEqual", "Greater", "GreaterOrEqual",
     "NotNull", "Null"}

Filterers == Comparisons \cup {"In", "Like", "True", "False"}

Selector == {"Select", "SelectToTarget", "Count"}

SelectManipulator == {"OrderBy", "GroupBy", "Limit", "Offset"}

(* The method sets of package interfaces.  Truncate is called on the value *)
(* Query returns.                                                          *)
Methods(i) ==
    CASE i = "Query" ->
            {"Extend", "Assign", "Join", "Where", "Delete", "Truncate"}
            \cup SelectManipulator \cup Selector
      [] i = "SelectQuery" -> SelectManipulator \cup Selector
      [] i = "UpdateQuery" -> {"Filter", "Update"} \cup Filterers
      [] i = "AssignQuery" -> {"Assign", "Where", "Insert", "Update"}
      [] i = "JoinQuery" ->
            {"Join", "On", "Where"} \cup Filterers \cup SelectManipulator
            \cup Selector
      [] i = "WhereQuery" ->
            {"Filter", "Delete"} \cup Filterers \cup SelectManipulator
            \cup Selector
      [] OTHER -> {}

(* Return types in which Where returns a WhereQuery from every interface. *)
ReturnsOneWherer(i, method) ==
    CASE method = "Extend" -> "interface{}"
      [] method = "Assign" -> "AssignQuery"
      [] method = "Join" -> "JoinQuery"
      [] method = "Where" -> "WhereQuery"
      [] method \in SelectManipulator -> "SelectQuery"
      [] OTHER -> i

(* The type a method of interface i returns; the comparison methods, On    *)
(* and Filter return the interface they are declared in.  Extend returns   *)
(* an interface{}, which has no method.                                    *)
Returns(i, method) ==
    CASE method = "Extend" -> "interface{}"
      [] method = "Assign" -> "AssignQuery"
      [] method = "Join" -> "JoinQuery"
      [] method = "Where" ->
            IF i = "AssignQuery" THEN "UpdateQuery" ELSE "WhereQuery"
      [] method \in SelectManipulator -> "SelectQuery"
      [] OTHER -> i

(* A call of method on the value of static type iface.                     *)
Call(method) ==
    IF iface = "*QueryPlan" THEN UNCHANGED iface
    ELSE method \in Methods(iface) /\ iface' = Returns(iface, method)

(***************************************************************************)
(* Fluent calls.  A call is possible while no earlier call has panicked    *)
(* and the goroutine that runs the plan is in no other call, before or     *)
(* after a terminal call; `last` records the latest terminal call only     *)
(* while no fluent call has followed it.                                   *)
(***************************************************************************)
Building ==
    /\ panicked = ""
    /\ goroutines.writer.pc = "idle"
    /\ last' = NoCall

ErrorsAfter(err) == Append(Errors, err)

(* AssignQueryPlan.Assign *)
(* An Assign that numbers its placeholders from one.                       *)
AssignNumberedFromOne(maxAssigns, fieldPtr, value) ==
    LET c == LocateColumn(colMap, fieldPtr)
    IN  /\ Building
        /\ Call("Assign")
        /\ IF c.err # NoErr
           THEN /\ Len(Errors) < MaxErrors
                /\ Errors' = ErrorsAfter(c.err)
                /\ UNCHANGED <<assignCols, assignBindVars, assignArgs>>
           ELSE /\ Len(assignCols) < maxAssigns
                /\ assignCols' = Append(assignCols, c.column)
                /\ assignBindVars' = Append(assignBindVars,
                                        BindVar(dialect, Len(assignArgs) + 1, value))
                /\ assignArgs' = Append(assignArgs, value)
                /\ UNCHANGED Errors
        /\ UNCHANGED <<distinctFields, forUpdate, forUpdateOf, withTX, argLock, goroutines, dialect, target, table, quotedTable, colMap, joins,
                       filters, orderBy, groupBy, limit, offset, args, argLen,
                       panicked, sinceJoin>>

(* AssignQueryPlan.Assign, explored while fewer than maxAssigns           *)
(* assignments are held.                                                   *)
AssignWithin(maxAssigns, fieldPtr, value) ==
    LET c == LocateColumn(colMap, fieldPtr)
    IN  /\ Building
        /\ Call("Assign")
        /\ IF c.err # NoErr
           THEN /\ Len(Errors) < MaxErrors
                /\ Errors' = ErrorsAfter(c.err)
                /\ UNCHANGED <<assignCols, assignBindVars, assignArgs>>
           ELSE /\ Len(assignCols) < maxAssigns
                /\ assignCols' = Append(assignCols, c.column)
                /\ assignBindVars' = Append(assignBindVars,
                                        BindVar(dialect, Len(assignArgs), value))
                /\ assignArgs' = Append(assignArgs, value)
                /\ UNCHANGED Errors
        /\ UNCHANGED <<distinctFields, forUpdate, forUpdateOf, withTX, argLock, goroutines, dialect, target, table, quotedTable, colMap, joins,
                       filters, orderBy, groupBy, limit, offset, args, argLen,
                       panicked, sinceJoin>>

Assign(fieldPtr, value) == AssignWithin(MaxAssigns, fieldPtr, value)

(* QueryPlan.AddField.  The entry is looked up with joinMapForPointer, so  *)
(* a transient field is found as any other.  No join operation is          *)
(* registered for a field of the schema (m.join is nil).                   *)
AddFieldTo(structMap, fieldPtr) ==
    The({ IF m.err # NoErr THEN [err |-> m.err, colMap |-> structMap]
          ELSE [err |-> NoErr,
                colMap |-> [structMap EXCEPT ![m.idx].doSelect = TRUE]]
          : m \in {joinMapForPointer(structMap, fieldPtr)} })

AddField(fieldPtr) ==
    LET r == AddFieldTo(colMap, fieldPtr)
    IN  /\ Building
        /\ Call("AddField")
        /\ colMap' = r.colMap
        /\ IF r.err # NoErr
           THEN /\ Len(Errors) < MaxErrors
                /\ Errors' = ErrorsAfter(r.err)
           ELSE UNCHANGED Errors
        /\ UNCHANGED <<distinctFields, forUpdate, forUpdateOf, withTX, argLock, goroutines, dialect, target, table, quotedTable, joins,
                       filters, assignCols, assignBindVars, assignArgs, orderBy,
                       groupBy, limit, offset, args, argLen, panicked,
                       sinceJoin>>

(* QueryPlan.Fields: every column is deselected, then AddField is called   *)
(* for each of the fields (here one).                                      *)
Fields(fieldPtr) ==
    LET r == AddFieldTo([n \in 1..Len(colMap) |->
                           [colMap[n] EXCEPT !.doSelect = FALSE]], fieldPtr)
    IN  /\ Building
        /\ Call("Fields")
        /\ colMap' = r.colMap
        /\ IF r.err # NoErr
           THEN /\ Len(Errors) < MaxErrors
                /\ Errors' = ErrorsAfter(r.err)
           ELSE UNCHANGED Errors
        /\ UNCHANGED <<distinctFields, forUpdate, forUpdateOf, withTX, argLock, goroutines, dialect, target, table, quotedTable, joins,
                       filters, assignCols, assignBindVars, assignArgs, orderBy,
                       groupBy, limit, offset, args, argLen, panicked,
                       sinceJoin>>

(* QueryPlan.JoinType, reached through Join ("inner") and LeftJoin         *)
(* ("left outer"), explored while fewer than maxJoins joins are stored.    *)
JoinTypeWithin(maxJoins, joinType, targetVal) ==
    LET m == mapTable(colMap, table, targetVal)
    IN  /\ Building
        /\ Call(IF joinType = "inner" THEN "Join" ELSE "LeftJoin")
        /\ Len(storedJoins) < maxJoins
        /\ joins' = storedJoins
        /\ colMap' = m.colMap
        /\ sinceJoin' = <<>>
        /\ IF m.err # NoErr
           THEN /\ Len(Errors) < MaxErrors
                /\ Errors' = ErrorsAfter(m.err)
                /\ filters' = NewJoinFilter(joinType, "Error: no table found", "")
           ELSE /\ filters' = NewJoinFilter(joinType, QuotedTableForQuery(m.table),
                                  IF m.alias # "" /\ m.alias # "-"
                                  THEN QuoteField(m.alias) ELSE "")
                /\ UNCHANGED Errors
        /\ UNCHANGED <<distinctFields, forUpdate, forUpdateOf, withTX, argLock, goroutines, dialect, target, table, quotedTable, assignCols,
                       assignBindVars, assignArgs, orderBy, groupBy, limit,
                       offset, args, argLen, panicked>>

JoinType(joinType, targetVal) == JoinTypeWithin(MaxJoins, joinType, targetVal)

Join(targetVal) == JoinType("inner", targetVal)

LeftJoin(targetVal) == JoinType("left outer", targetVal)

(* plan.filters.Add(fs...): a call on the nil interface panics.  Explored  *)
(* while the active filter holds no more than maxSub filters.              *)
AddToFiltersWithin(maxSub, fs) ==
    IF filters = NilFilter
    THEN /\ panicked' = "nil pointer dereference: plan.filters.Add"
         /\ UNCHANGED <<filters, sinceJoin>>
    ELSE /\ Len(filters.subFilters) + Len(fs) <= maxSub
         /\ filters' = FilterAdd(filters, fs)
         /\ sinceJoin' = IF filters.kind = "join" THEN sinceJoin \o fs ELSE <<>>
         /\ UNCHANGED panicked

AddToFilters(fs) == AddToFiltersWithin(MaxSub, fs)

(* QueryPlan.Filter and the methods that are sugar for it.                 *)
FilterCallWithin(maxSub, method, fs) ==
    /\ Building
    /\ Call(method)
    /\ AddToFiltersWithin(maxSub, fs)
    /\ UNCHANGED <<distinctFields, forUpdate, forUpdateOf, withTX, argLock, goroutines, dialect, target, table, quotedTable, Errors, colMap, joins,
                   assignCols, assignBindVars, assignArgs, orderBy, groupBy,
                   limit, offset, args, argLen>>

FilterCall(method, fs) == FilterCallWithin(MaxSub, method, fs)

(* QueryPlan.Filter *)
Filter(fs) == FilterCall("Filter", fs)

(* QueryPlan.On *)
On(fs) == FilterCall("On", fs)

(* QueryPlan.Equal *)
Equal(fieldPtr, value) == FilterCall("Equal", <<filtersEqual(fieldPtr, value)>>)

(* QueryPlan.ConvertTo *)
ConvertTo(filter, to) == FilterCall("ConvertTo", <<filtersConvertTo(filter, to)>>)

(* QueryPlan.Like, Equal, NotEqual, Less, LessOrEqual, Greater and         *)
(* GreaterOrEqual: plan.Filter of the filter built by the function of the  *)
(* same name in package filters, in either generation of that package.     *)
Compare(method, fieldPtr, value) ==
    \E f \in {ComparisonFilter(method, fieldPtr, value)}
              \cup (IF method = "Like" THEN {}
                    ELSE {ComparisonFilterSnapshot(method, fieldPtr, value)}) :
        FilterCall(method, <<f>>)

(* QueryPlan.Null, NotNull, True and False *)
FieldTest(method, fieldPtr) ==
    FilterCall(method, <<CASE method = "Null" -> filtersNull(fieldPtr)
                           [] method = "NotNull" -> filtersNotNull(fieldPtr)
                           [] method = "True" -> filtersTrue(fieldPtr)
                           [] method = "False" -> filtersFalse(fieldPtr)>>)

(* QueryPlan.In *)
In(fieldPtr, values) == FilterCall("In", <<filtersIn(fieldPtr, values)>>)

(* QueryPlan.Where, explored with no more than maxSub filters.             *)
WhereWithin(maxSub, fs) ==
    /\ Building
    /\ Call("Where")
    /\ Len(fs) <= maxSub
    /\ joins' = storedJoins
    /\ filters' = FilterAdd(NewAndFilter, fs)
    /\ sinceJoin' = <<>>
    /\ UNCHANGED <<distinctFields, forUpdate, forUpdateOf, withTX, argLock, goroutines, dialect, target, table, quotedTable, Errors, colMap,
                   assignCols, assignBindVars, assignArgs, orderBy, groupBy,
                   limit, offset, args, argLen, panicked>>

Where(fs) == WhereWithin(MaxSub, fs)

(* QueryPlan.OrderBy *)
OrderBy(fieldPtrOrWrapper, direction) ==
    /\ Building
    /\ Call("OrderBy")
    /\ Len(orderBy) < MaxOrder
    /\ orderBy' = Append(orderBy, Order(fieldPtrOrWrapper, direction))
    /\ UNCHANGED <<distinctFields, forUpdate, forUpdateOf, withTX, argLock, goroutines, dialect, target, table, quotedTable, Errors, colMap, joins,
                   filters, assignCols, assignBindVars, assignArgs, groupBy,
                   limit, offset, args, argLen, panicked, sinceJoin>>

(* QueryPlan.GroupBy *)
GroupBy(fieldPtr) ==
    LET c == LocateTableAndColumn(colMap, fieldPtr)
    IN  /\ Building
        /\ Call("GroupBy")
        /\ IF c.err # NoErr
           THEN /\ Len(Errors) < MaxErrors
                /\ Errors' = ErrorsAfter(c.err)
                /\ UNCHANGED groupBy
           ELSE /\ Len(groupBy) < MaxGroup
                /\ groupBy' = Append(groupBy, c.column)
                /\ UNCHANGED Errors
        /\ UNCHANGED <<distinctFields, forUpdate, forUpdateOf, withTX, argLock, goroutines, dialect, target, table, quotedTable, colMap, joins,
                       filters, assignCols, assignBindVars, assignArgs, orderBy,
                       limit, offset, args, argLen, panicked, sinceJoin>>

(* QueryPlan.Limit *)
Limit(n) ==
    /\ Building
    /\ Call("Limit")
    /\ limit' = n
    /\ UNCHANGED <<distinctFields, forUpdate, forUpdateOf, withTX, argLock, goroutines, dialect, target, table, quotedTable, Errors, colMap, joins,
                   filters, assignCols, assignBindVars, assignArgs, orderBy,
                   groupBy, offset, args, argLen, panicked, sinceJoin>>

(* QueryPlan.Offset *)
Offset(n) ==
    /\ Building
    /\ Call("Offset")
    /\ offset' = n
    /\ UNCHANGED <<distinctFields, forUpdate, forUpdateOf, withTX, argLock, goroutines, dialect, target, table, quotedTable, Errors, colMap, joins,
                   filters, assignCols, assignBindVars, assignArgs, orderBy,
                   groupBy, limit, args, argLen, panicked, sinceJoin>>

(* QueryPlan.DiscardOrderBy *)
DiscardOrderBy ==
    /\ Building
    /\ Call("DiscardOrderBy")
    /\ orderBy' = <<>>
    /\ UNCHANGED <<distinctFields, forUpdate, forUpdateOf, withTX, argLock,
                   goroutines, dialect, target, table, quotedTable, Errors,
                   colMap, joins, filters, assignCols, assignBindVars,
                   assignArgs, groupBy, limit, offset, args, argLen, panicked,
                   sinceJoin>>

(* QueryPlan.DiscardLimit *)
DiscardLimit ==
    /\ Building
    /\ Call("DiscardLimit")
    /\ limit' = 0
    /\ UNCHANGED <<distinctFields, forUpdate, forUpdateOf, withTX, argLock,
                   goroutines, dialect, target, table, quotedTable, Errors,
                   colMap, joins, filters, assignCols, assignBindVars,
                   assignArgs, orderBy, groupBy, offset, args, argLen, panicked,
                   sinceJoin>>

(* QueryPlan.DiscardOffset *)
DiscardOffset ==
    /\ Building
    /\ Call("DiscardOffset")
    /\ offset' = 0
    /\ UNCHANGED <<distinctFields, forUpdate, forUpdateOf, withTX, argLock,
                   goroutines, dialect, target, table, quotedTable, Errors,
                   colMap, joins, filters, assignCols, assignBindVars,
                   assignArgs, orderBy, groupBy, limit, args, argLen, panicked,
                   sinceJoin>>

(* QueryPlan.Distinct *)
Distinct(fields) ==
    /\ Building
    /\ Call("Distinct")
    /\ distinctFields' = fields
    /\ UNCHANGED <<forUpdate, forUpdateOf, withTX, argLock, goroutines, dialect,
                   target, table, quotedTable, Errors, colMap, joins, filters,
                   assignCols, assignBindVars, assignArgs, orderBy, groupBy,
                   limit, offset, args, argLen, panicked, sinceJoin>>

(* QueryPlan.ForUpdate: of is nil or a pointer to the struct whose table   *)
(* is to be locked, which is mapped as the target of a join is.            *)
NilTarget == [kind |-> "nil", elem |-> "", type |-> ""]

ForUpdate(of) ==
    LET m == mapTable(colMap, table, of)
    IN  /\ Building
        /\ Call("ForUpdate")
        /\ forUpdate' = TRUE
        /\ IF of = NilTarget
           THEN UNCHANGED <<colMap, Errors, forUpdateOf>>
           ELSE /\ Len(colMap) < MaxColumns
                /\ colMap' = m.colMap
                /\ IF m.err # NoErr
                   THEN /\ Len(Errors) < MaxErrors
                        /\ Errors' = ErrorsAfter(m.err)
                        /\ UNCHANGED forUpdateOf
                   ELSE /\ forUpdateOf' = QuotedTableForQuery(m.table)
                        /\ UNCHANGED Errors
        /\ UNCHANGED <<distinctFields, withTX, argLock, goroutines, dialect,
                       target, table, quotedTable, joins, filters, assignCols,
                       assignBindVars, assignArgs, orderBy, groupBy, limit,
                       offset, args, argLen, panicked, sinceJoin>>

(* LoadExtension: the extensions registered by the packages of the         *)
(* repository, one for the Postgres dialect.                               *)
ExtensionNotFound ==
    "No extension has been registered for the requested dialect"

LoadExtension(d) == IF d = "postgres" THEN NoErr ELSE ExtensionNotFound

(* QueryPlan.Extend: the extended plan wraps the same plan. *)
Extend ==
    /\ Building
    /\ Call("Extend")
    /\ IF LoadExtension(dialect) # NoErr
       THEN /\ Len(Errors) < MaxErrors
            /\ Errors' = ErrorsAfter(LoadExtension(dialect))
       ELSE UNCHANGED Errors
    /\ UNCHANGED <<distinctFields, forUpdate, forUpdateOf, withTX, argLock,
                   goroutines, dialect, target, table, quotedTable, colMap,
                   joins, filters, assignCols, assignBindVars, assignArgs,
                   orderBy, groupBy, limit, offset, args, argLen, panicked,
                   sinceJoin>>

(* plan.lastRefs: mapTable collects a reference filter for each column of  *)
(* a struct mapped through a field of the plan that other columns refer    *)
(* to.  The tables of TableColumns hold no column with a target table.     *)
lastRefs == <<>>

ErrNoReferences == "No references found to join with"

(* JoinQueryPlan.References *)
JoinReferences ==
    /\ Building
    /\ Call("References")
    /\ IF Len(lastRefs) = 0
       THEN /\ Len(Errors) < MaxErrors
            /\ Errors' = ErrorsAfter(ErrNoReferences)
       ELSE UNCHANGED Errors
    /\ AddToFilters(lastRefs)
    /\ UNCHANGED <<distinctFields, forUpdate, forUpdateOf, withTX, argLock,
                   goroutines, dialect, target, table, quotedTable, colMap,
                   joins, assignCols, assignBindVars, assignArgs, orderBy,
                   groupBy, limit, offset, args, argLen>>

(* QueryPlan.References: the References of a JoinQueryPlan built around    *)
(* the plan.                                                               *)
References == JoinReferences

(***************************************************************************)
(* Terminal calls.  The outcome of a call is a record: panic (the call     *)
(* panicked), err (the error returned), renderErr (the error met while     *)
(* assembling the SQL), exec (which executor received the statement),      *)
(* query and qargs (the statement and the arguments it received), args     *)
(* (plan.args afterwards) and stored (storeJoin has run).                  *)
(***************************************************************************)
Outcome(panic, err, renderErr, exec, query, qargs, as, stored) ==
    [panic |-> panic, err |-> err, renderErr |-> renderErr, exec |-> exec,
     query |-> query, qargs |-> qargs, args |-> as, stored |-> stored]

ZeroValuePanic == "reflect: call of reflect.Value.Interface on zero Value"

NilTablePanic == "nil pointer dereference: plan.table"

(* resetArgs: the argument list restarts from the assigned values.         *)
resetArgs == assignArgs

(* A call that panics.  plan.target.Interface() panics inside resetArgs,   *)
(* after the argument list was refilled and before argLen is set and the   *)
(* lock released; Truncate panics before it touches the arguments.         *)
Panics(msg) ==
    Outcome(msg, NoErr, NoErr, "none", <<>>, <<>>,
            IF msg = ZeroValuePanic THEN resetArgs ELSE args, FALSE)

(* The end of selectQuery. *)
forUpdateClause ==
    IF forUpdate
    THEN Txt(" for update")
         \o (IF forUpdateOf # "" THEN Txt(" of ") \o Txt(forUpdateOf) ELSE <<>>)
    ELSE <<>>

(* selectQuery and Select *)
SelectOutcome ==
    IF target = NoTarget THEN Panics(ZeroValuePanic)
    ELSE The({
           IF c.err # NoErr
           THEN Outcome("", c.err, c.renderErr, "none", <<>>, <<>>, c.args, FALSE)
           ELSE The({
                  IF x.err # NoErr
                  THEN Outcome("", x.err, x.err, "none", <<>>, <<>>, x.args, TRUE)
                  ELSE Outcome("", NoErr, NoErr, "executor",
                               c.sql \o x.sql \o forUpdateClause,
                               x.args, x.args, TRUE)
                  : x \in {writeSelectSuffix(c.args)} })
           : c \in {writeSelectColumns(resetArgs)} })

ErrSelectToTarget ==
    "SelectToTarget must be run with a pointer to a slice as its target"

PtrSlice == [kind |-> "ptr", elem |-> "slice", type |-> "A"]

NilTypePanic == "reflect: call of reflect.Value.Type on zero Value"

(* SelectToTarget: reflect.ValueOf(target).Type() panics on a nil target;  *)
(* the kind of the target is tested before anything else is done.          *)
SelectToTargetOutcome(targetVal) ==
    IF targetVal.kind = "nil" THEN Panics(NilTypePanic)
    ELSE IF targetVal.kind # "ptr" \/ targetVal.elem # "slice"
    THEN Outcome("", ErrSelectToTarget, NoErr, "none", <<>>, <<>>, args, FALSE)
    ELSE SelectOutcome

(* Count *)
CountOutcome ==
    IF target = NoTarget THEN Panics(ZeroValuePanic)
    ELSE The({
           IF x.err # NoErr
           THEN Outcome("", x.err, x.err, "none", <<>>, <<>>, x.args, TRUE)
           ELSE Outcome("", NoErr, NoErr, "executor",
                        Txt("select count(*)") \o x.sql, x.args, x.args, TRUE)
           : x \in {writeSelectSuffix(resetArgs)} })

(* Insert *)
InsertOutcome ==
    IF target = NoTarget THEN Panics(ZeroValuePanic)
    ELSE IF Len(Errors) > 0
    THEN Outcome("", Errors[1], NoErr, "none", <<>>, <<>>, resetArgs, FALSE)
    ELSE Outcome("", NoErr, NoErr, "executor",
                 Txt("insert into " \o QuotedTableForQuery(table) \o " (")
                 \o JoinWith([n \in 1..Len(assignCols) |-> Txt(assignCols[n])],
                             Txt(", "))
                 \o Txt(") values (")
                 \o JoinWith(assignBindVars, Txt(", "))
                 \o Txt(")"),
                 resetArgs, resetArgs, FALSE)

(* The SET list of Update. *)
setClause ==
    JoinWith([n \in 1..Len(assignCols) |->
                 Txt(assignCols[n]) \o Txt("=") \o assignBindVars[n]], Txt(", "))

(* The WHERE clause of Update and Delete: the plan's own conditions, then  *)
(* the conditions of the joins.                                            *)
foldedWhere(whereSql, joinWhere) ==
    IF QueryText(joinWhere) # ""
    THEN (IF QueryText(whereSql) = "" THEN Txt(" where ")
          ELSE whereSql \o Txt(" and ")) \o joinWhere
    ELSE whereSql

joinTables(from) == JoinWith([n \in 1..Len(from) |-> Txt(from[n])], Txt(", "))

(* Update *)
UpdateOutcome ==
    IF target = NoTarget THEN Panics(ZeroValuePanic)
    ELSE IF Len(Errors) > 0
    THEN Outcome("", Errors[1], NoErr, "none", <<>>, <<>>, resetArgs, FALSE)
    ELSE The({
           IF j.err # NoErr
           THEN Outcome("", NoErr, j.err, "none", <<>>, <<>>, j.args, FALSE)
           ELSE The({
                  IF w.err # NoErr
                  THEN Outcome("", w.err, w.err, "none", <<>>, <<>>, w.args, FALSE)
                  ELSE Outcome("", NoErr, NoErr, "executor",
                          Txt("update " \o QuotedTableForQuery(table) \o " set ")
                          \o setClause
                          \o (IF QueryText(joinTables(j.from)) # ""
                              THEN Txt(" from ") \o joinTables(j.from) ELSE <<>>)
                          \o foldedWhere(w.sql, j.where),
                          w.args, w.args, FALSE)
                  : w \in {whereClause(filters, j.args)} })
           : j \in {joinFromAndWhereClause(joins, resetArgs)} })

(* Delete *)
DeleteOutcome ==
    IF target = NoTarget THEN Panics(ZeroValuePanic)
    ELSE IF Len(Errors) > 0
    THEN Outcome("", Errors[1], NoErr, "none", <<>>, <<>>, resetArgs, FALSE)
    ELSE The({
           IF j.err # NoErr
           THEN Outcome("", j.err, j.err, "none", <<>>, <<>>, j.args, FALSE)
           ELSE The({
                  IF w.err # NoErr
                  THEN Outcome("", w.err, w.err, "none", <<>>, <<>>, w.args, FALSE)
                  ELSE Outcome("", NoErr, NoErr, "executor",
                          Txt("delete from " \o QuotedTableForQuery(table))
                          \o (IF QueryText(joinTables(j.from)) # ""
                              THEN Txt(" using ") \o joinTables(j.from) ELSE <<>>)
                          \o foldedWhere(w.sql, j.where),
                          w.args, w.args, FALSE)
                  : w \in {whereClause(filters, j.args)} })
           : j \in {joinFromAndWhereClause(joins, resetArgs)} })

(* The end of Update: a target that implements HasPostDirectUpdate has its *)
(* PostDirectUpdate called once the statement ran, and the error of that   *)
(* call is returned.                                                       *)
HasPostDirectUpdate(targetVal) == targetVal.type = "H"

ErrPostDirectUpdate == "PostDirectUpdate failed"

PostDirectUpdate(targetVal) ==
    IF HasPostDirectUpdate(targetVal) THEN {NoErr, ErrPostDirectUpdate}
    ELSE {NoErr}

UpdateOutcomeAfter(out, err) ==
    IF out.panic = "" /\ out.exec # "none" /\ err # NoErr
    THEN [out EXCEPT !.err = err]
    ELSE out

(* Truncate *)
TruncateOutcome ==
    IF quotedTable = "" /\ table = NoTable THEN Panics(NilTablePanic)
    ELSE Outcome("", NoErr, NoErr, "dbMap",
                 Txt("truncate table " \o quotedTable), <<>>, args, FALSE)

(* Whether the call went through resetArgs to its end. *)
ArgsReset(op, out) ==
    /\ out.panic = ""
    /\ op # "Truncate"
    /\ ~(op = "SelectToTarget" /\ out.err = ErrSelectToTarget)

ArgsFrame ==
    UNCHANGED <<withTX, dialect, target, table, quotedTable, Errors, colMap,
                joins, filters, assignCols, assignBindVars, assignArgs, orderBy,
                groupBy, limit, offset, panicked, last, sinceJoin, iface,
                distinctFields, forUpdate, forUpdateOf>>

(* A read lock that is granted whoever holds the lock.                     *)
CanRLockAlways == TRUE

(* argLock.RLock() returns while no goroutine holds the write lock.        *)
CanRLock == ~argLock.writer

(* argLock.Lock() returns while no goroutine holds the lock.               *)
CanLock == ~argLock.writer /\ argLock.readers = 0

(***************************************************************************)
(* A terminal call is not one step: it calls resetArgs, getArgs and        *)
(* appendArgs, each of which takes and releases the lock of the argument   *)
(* list, storeJoin and, in Update, the PostDirectUpdate hook.  These are   *)
(* the calls it makes, in order.  argOrColumn calls getArgs for the length *)
(* and appendArgs for each literal it resolves; an entry of ORDER BY has   *)
(* its parameters appended in one call, the limit and the offset are       *)
(* appended alone; the arguments handed to the executor are read with      *)
(* getArgs.                                                                *)
(***************************************************************************)
ArgCall(do, vals) == [do |-> do, vals |-> vals]

RECURSIVE viaArgOrColumn(_, _)
viaArgOrColumn(from, to) ==
    IF Len(to) <= Len(from) THEN <<>>
    ELSE <<ArgCall("getArgs", <<>>), ArgCall("appendArgs", <<to[Len(from) + 1]>>)>>
         \o viaArgOrColumn(Append(from, to[Len(from) + 1]), to)

RECURSIVE orderByCalls(_, _)
orderByCalls(obs, bindIdx) ==
    IF obs = <<>> THEN [err |-> NoErr, calls |-> <<>>]
    ELSE The({
           IF r.err # NoErr THEN [err |-> r.err, calls |-> <<>>]
           ELSE The({ [err |-> rest.err,
                       calls |-> <<ArgCall("appendArgs", r.params)>>
                                 \o rest.calls]
                      : rest \in {orderByCalls(Tail(obs),
                                               bindIdx + Len(r.params))} })
           : r \in {OrderBySql(Head(obs), bindIdx)} })

limitOffsetCalls(as) ==
    The({ [n \in 1..(Len(l.args) - Len(as)) |->
             ArgCall("appendArgs", <<l.args[Len(as) + n]>>)]
          : l \in {limitOffsetClause(as)} })

writeSelectSuffixCalls(as) ==
    The({
      <<ArgCall("storeJoin", <<>>)>>
      \o viaArgOrColumn(as, j.args)
      \o (IF j.err # NoErr THEN <<>>
          ELSE The({
                 viaArgOrColumn(j.args, w.args)
                 \o (IF w.err # NoErr THEN <<>>
                     ELSE The({
                            oc.calls
                            \o (IF oc.err # NoErr THEN <<>>
                                ELSE limitOffsetCalls(o.args))
                            : oc \in {orderByCalls(orderBy, Len(w.args))},
                              o \in {orderByClause(orderBy, w.args, TRUE)} }))
                 : w \in {whereClause(storedFilters, j.args)} }))
      : j \in {selectJoinClause(storedJoins, as)} })

selectQueryCalls ==
    The({ viaArgOrColumn(resetArgs, c.args)
          \o (IF c.err # NoErr THEN <<>> ELSE writeSelectSuffixCalls(c.args))
          : c \in {writeSelectColumns(resetArgs)} })

foldedWhereCalls ==
    IF Len(Errors) > 0 THEN <<>>
    ELSE The({
           viaArgOrColumn(resetArgs, j.args)
           \o (IF j.err # NoErr THEN <<>>
               ELSE The({ viaArgOrColumn(j.args, w.args)
                          : w \in {whereClause(filters, j.args)} }))
           : j \in {joinFromAndWhereClause(joins, resetArgs)} })

ArgCalls(op, out) ==
    IF \/ op = "Truncate"
       \/ op = "SelectToTarget" /\ out.err = ErrSelectToTarget
       \/ out.panic = NilTypePanic
    THEN <<>>
    ELSE <<ArgCall("resetArgs", <<>>)>>
         \o (IF out.panic # "" THEN <<>>
             ELSE (CASE op \in {"Select", "SelectToTarget"} -> selectQueryCalls
                     [] op = "Count" -> writeSelectSuffixCalls(resetArgs)
                     [] op \in {"Update", "Delete"} -> foldedWhereCalls
                     [] OTHER -> <<>>)
                  \o (IF out.exec = "executor"
                      THEN <<ArgCall("getArgs", <<>>)>> ELSE <<>>)
                  \o (IF op = "Update" /\ out.exec = "executor"
                         /\ HasPostDirectUpdate(target)
                      THEN <<ArgCall("PostDirectUpdate", <<>>)>> ELSE <<>>))

(* Where the writer stands when the calls in todo are ahead of it.         *)
WriterAt(todo) ==
    IF todo = <<>> THEN "return"
    ELSE CASE Head(todo).do = "getArgs" -> "rlock"
           [] Head(todo).do = "storeJoin" -> "storeJoin"
           [] Head(todo).do = "PostDirectUpdate" -> "hook"
           [] OTHER -> "lock"

WriterFrame ==
    UNCHANGED <<withTX, dialect, target, table, quotedTable, Errors, colMap,
                joins, filters, assignCols, assignBindVars, assignArgs, orderBy,
                groupBy, limit, offset, sinceJoin, distinctFields, forUpdate,
                forUpdateOf>>

(* The goroutine that runs the plan calls a terminal method: out is what   *)
(* the call comes to on the plan as it is.                                 *)
TerminalCall(op, out) ==
    /\ panicked = ""
    /\ goroutines.writer.pc = "idle"
    /\ Call(op)
    /\ goroutines' = [goroutines EXCEPT
                        !.writer = [pc |-> WriterAt(ArgCalls(op, out)),
                                    op |-> op, todo |-> ArgCalls(op, out),
                                    out |-> out]]
    /\ UNCHANGED <<args, argLen, argLock, panicked, last>>
    /\ WriterFrame

(* The goroutine that runs the plan calls ArgOrColumn with a literal.      *)
ArgOrColumn(value) ==
    /\ panicked = ""
    /\ goroutines.writer.pc = "idle"
    /\ value.k = "lit"
    /\ Len(args) < MaxArgs
    /\ goroutines' = [goroutines EXCEPT
                        !.writer = [IdleWriter EXCEPT
                                      !.pc = "rlock", !.op = "ArgOrColumn",
                                      !.todo = <<ArgCall("getArgs", <<>>),
                                                 ArgCall("appendArgs",
                                                         <<value.n>>)>>]]
    /\ UNCHANGED <<args, argLen, argLock>>
    /\ ArgsFrame

(* plan.argLock.RLock() in the writer's getArgs *)
WriterRLock ==
    /\ CanRLock
    /\ goroutines.writer.pc = "rlock"
    /\ goroutines' = [goroutines EXCEPT !.writer.pc = "runlock"]
    /\ argLock' = [argLock EXCEPT !.readers = @ + 1]
    /\ UNCHANGED <<args, argLen>>
    /\ ArgsFrame

(* The copy and plan.argLock.RUnlock() in the writer's getArgs *)
WriterRUnlock ==
    /\ goroutines.writer.pc = "runlock"
    /\ goroutines' = [goroutines EXCEPT
                        !.writer.todo = Tail(@),
                        !.writer.pc = WriterAt(Tail(goroutines.writer.todo))]
    /\ argLock' = [argLock EXCEPT !.readers = @ - 1]
    /\ UNCHANGED <<args, argLen>>
    /\ ArgsFrame

(* plan.argLock.Lock() *)
WriterLock ==
    /\ CanLock
    /\ goroutines.writer.pc = "lock"
    /\ goroutines' = [goroutines EXCEPT !.writer.pc = "write"]
    /\ argLock' = [argLock EXCEPT !.writer = TRUE]
    /\ UNCHANGED <<args, argLen>>
    /\ ArgsFrame

(* plan.args = append(plan.args, args...) in appendArgs; plan.args = nil   *)
(* in resetArgs.                                                           *)
WriterWrite ==
    /\ goroutines.writer.pc = "write"
    /\ IF Head(goroutines.writer.todo).do = "appendArgs"
       THEN /\ args' = args \o Head(goroutines.writer.todo).vals
            /\ goroutines' = [goroutines EXCEPT !.writer.pc = "len"]
       ELSE /\ args' = <<>>
            /\ goroutines' = [goroutines EXCEPT !.writer.pc = "refill"]
    /\ UNCHANGED <<argLen, argLock>>
    /\ ArgsFrame

(* resetArgs: plan.args = append(plan.args, plan.assignArgs...) when there *)
(* are assigned values, then plan.target.Interface(), which panics on the  *)
(* zero Value with the write lock held.                                    *)
WriterRefill ==
    /\ goroutines.writer.pc = "refill"
    /\ args' = IF Len(assignArgs) > 0 THEN args \o assignArgs ELSE args
    /\ IF target = NoTarget
       THEN /\ goroutines' = [goroutines EXCEPT !.writer.pc = "panicked"]
            /\ panicked' = ZeroValuePanic
            /\ last' = [op |-> goroutines.writer.op, err |-> NoErr,
                        renderErr |-> NoErr, exec |-> "none", query |-> <<>>,
                        qargs |-> <<>>]
       ELSE /\ goroutines' = [goroutines EXCEPT !.writer.pc = "len"]
            /\ UNCHANGED <<panicked, last>>
    /\ UNCHANGED <<argLen, argLock, iface>>
    /\ WriterFrame

(* plan.argLen = len(plan.args) *)
WriterLen ==
    /\ goroutines.writer.pc = "len"
    /\ argLen' = Len(args)
    /\ goroutines' = [goroutines EXCEPT !.writer.pc = "unlock"]
    /\ UNCHANGED <<args, argLock>>
    /\ ArgsFrame

(* plan.argLock.Unlock(): the write is complete. *)
WriterUnlock ==
    /\ goroutines.writer.pc = "unlock"
    /\ argLock' = [argLock EXCEPT !.writer = FALSE]
    /\ goroutines' =
         [goroutines EXCEPT
            !.writer.todo = Tail(@),
            !.writer.pc = WriterAt(Tail(goroutines.writer.todo)),
            !.committed = args,
            !.reader = [r \in Readers |->
                          IF goroutines.reader[r].pc \in {"rlock", "make", "range"}
                          THEN [goroutines.reader[r] EXCEPT !.seen = @ \cup {args}]
                          ELSE goroutines.reader[r]]]
    /\ UNCHANGED <<args, argLen>>
    /\ ArgsFrame

(* plan.storeJoin() at the start of writeSelectSuffix *)
WriterStoreJoin ==
    /\ goroutines.writer.pc = "storeJoin"
    /\ joins' = storedJoins
    /\ filters' = storedFilters
    /\ sinceJoin' = <<>>
    /\ goroutines' = [goroutines EXCEPT
                        !.writer.todo = Tail(@),
                        !.writer.pc = WriterAt(Tail(goroutines.writer.todo))]
    /\ UNCHANGED <<withTX, dialect, target, table, quotedTable, Errors, colMap,
                   assignCols, assignBindVars, assignArgs, orderBy, groupBy,
                   limit, offset, distinctFields, forUpdate, forUpdateOf,
                   args, argLen, argLock, iface, panicked, last>>

(* The end of Update: v.PostDirectUpdate(plan.executor), whose error the   *)
(* call returns.                                                           *)
WriterHook ==
    /\ goroutines.writer.pc = "hook"
    /\ \E err \in PostDirectUpdate(target) :
          goroutines' = [goroutines EXCEPT
                           !.writer.todo = Tail(@),
                           !.writer.pc = WriterAt(Tail(goroutines.writer.todo)),
                           !.writer.out = UpdateOutcomeAfter(@, err)]
    /\ UNCHANGED <<args, argLen, argLock>>
    /\ ArgsFrame

(* The call returns or panics: the statement has gone to the executor, or  *)
(* an error is handed back.  ArgOrColumn returns the placeholder.          *)
WriterReturn ==
    /\ goroutines.writer.pc = "return"
    /\ goroutines' = [goroutines EXCEPT !.writer = IdleWriter]
    /\ IF goroutines.writer.op = "ArgOrColumn"
       THEN UNCHANGED <<panicked, last>>
       ELSE LET out == goroutines.writer.out
            IN  /\ panicked' = out.panic
                /\ last' = [op |-> goroutines.writer.op, err |-> out.err,
                            renderErr |-> out.renderErr, exec |-> out.exec,
                            query |-> out.query, qargs |-> out.qargs]
    /\ UNCHANGED <<withTX, dialect, target, table, quotedTable, Errors, colMap,
                   joins, filters, sinceJoin, assignCols, assignBindVars,
                   assignArgs, orderBy, groupBy, limit, offset, distinctFields,
                   forUpdate, forUpdateOf, args, argLen, argLock, iface>>

(* A step of the call the goroutine that runs the plan is in.              *)
WriterStep ==
    \/ WriterRLock
    \/ WriterRUnlock
    \/ WriterLock
    \/ WriterWrite
    \/ WriterRefill
    \/ WriterLen
    \/ WriterUnlock
    \/ WriterReturn

(* QueryPlan.Select *)
Select == TerminalCall("Select", SelectOutcome)

(* QueryPlan.Count *)
Count == TerminalCall("Count", CountOutcome)

(* QueryPlan.Insert *)
Insert == TerminalCall("Insert", InsertOutcome)

(* QueryPlan.Update *)
Update == TerminalCall("Update", UpdateOutcome)

(* QueryPlan.SelectToTarget *)
SelectToTarget(targetVal) ==
    TerminalCall("SelectToTarget", SelectToTargetOutcome(targetVal))

(* QueryPlan.Delete *)
Delete == TerminalCall("Delete", DeleteOutcome)

(* QueryPlan.Truncate *)
Truncate == TerminalCall("Truncate", TruncateOutcome)


(***************************************************************************)
(* The inputs of the calls.                                                *)
(***************************************************************************)
AName == FieldPtr("A", "Name")
AID == FieldPtr("A", "ID")
ATr == FieldPtr("A", "Tr")
BAID == FieldPtr("B", "AID")
BVal == FieldPtr("B", "Val")
Unmapped == Ptr("X")
APriv == FieldPtr("A", "priv")

(* The inputs of Spec: construction and rendering errors, joins, filters.  *)
QueryTargets ==
    {PtrStruct("A"), PtrStruct("H"), PtrStruct("U"), PtrNonStruct, NonPtr}

EqualInputs == {<<AName, Lit(1)>>, <<BVal, Lit(2)>>, <<Unmapped, Lit(3)>>}

InInputs == {<<AID, <<>>>>, <<AID, <<Lit(4), Lit(5)>>>>}

FilterInputs ==
    {filtersEqual(e[1], e[2]) : e \in EqualInputs}
    \cup {filtersIn(e[1], e[2]) : e \in InInputs}

FilterLists == {<<>>} \cup {<<f>> : f \in FilterInputs}

AssignInputs == {<<AName, 7>>, <<Unmapped, 8>>}

JoinTargets == {PtrStruct("B")}

LeftJoinTargets == {PtrStruct("U")}

GroupInputs == {AName, ATr}

OrderInputs ==
    {<<AID, "sideways">>, <<AID, "Desc">>, <<Unmapped, "">>,
     <<Lower(CaseWhen(<<WhenThen(filtersEqual(AID, Lit(4)), Lit(5))>>, Lit(6))),
       "">>,
     <<CaseWhen(<<WhenThen(filtersEqual(AName, Lower(Lit(6))), Lit(1))>>, Lit(0)),
       "">>}

ConvertInputs == {<<filtersEqual(AName, Lit(1)), "text">>}

CompareInputs == {<<AName, Lit(1)>>}

LimitInputs == {5}

OffsetInputs == {3}

FieldInputs == {AName, ATr}

ForUpdateInputs == {NilTarget, PtrStruct("B")}

DistinctInputs == {<<AName>>, <<AName, AID>>}

SelectTargets == {PtrSlice, NonPtr, NilTarget}

(***************************************************************************)
(* The size of a plan: the entries the fluent calls have put on it.  Spec  *)
(* follows the fluent calls on plans of a size below MaxPlan.              *)
(***************************************************************************)
RECURSIVE SubFilterCount(_)
SubFilterCount(js) ==
    IF js = <<>> THEN 0
    ELSE 1 + Len(Head(js).subFilters) + SubFilterCount(Tail(js))

PlanSize ==
    Len(assignCols) + SubFilterCount(joins)
    + (IF filters = NilFilter THEN 0 ELSE 1 + Len(filters.subFilters))
    + Len(orderBy) + Len(groupBy) + Len(Errors) + Len(distinctFields)
    + (IF limit > 0 THEN 1 ELSE 0) + (IF offset > 0 THEN 1 ELSE 0)
    + (IF forUpdate THEN 1 ELSE 0)

Small(call) == PlanSize < MaxPlan /\ call

(* The terminal calls made in a row since the last fluent call, as far as  *)
(* `last` tells them apart: none, or one and more.  Spec follows fewer     *)
(* than MaxRun + 1 of them; the other specifications follow any number.    *)
Run == IF last = NoCall THEN 0 ELSE 1

Fresh(call) == Run < MaxRun /\ call

Next ==
    \/ \E a \in AssignInputs : Small(Assign(a[1], a[2]))
    \/ \E f \in FieldInputs : Small(AddField(f))
    \/ \E f \in FieldInputs : Small(Fields(f))
    \/ \E t \in JoinTargets : Small(Join(t))
    \/ \E t \in LeftJoinTargets : Small(LeftJoin(t))
    \/ \E fs \in FilterLists : Small(On(fs))
    \/ Small(References)
    \/ \E fs \in FilterLists : Small(Where(fs))
    \/ \E fs \in FilterLists : Small(Filter(fs))
    \/ \E e \in EqualInputs : Small(Equal(e[1], e[2]))
    \/ \E e \in InInputs : Small(In(e[1], e[2]))
    \/ \E method \in (Comparisons \ {"Equal", "Null", "NotNull"}) \cup {"Like"} :
          \E e \in CompareInputs : Small(Compare(method, e[1], e[2]))
    \/ \E method \in {"Null", "NotNull", "True", "False"} :
          \E f \in FieldInputs : Small(FieldTest(method, f))
    \/ \E c \in ConvertInputs : Small(ConvertTo(c[1], c[2]))
    \/ \E g \in GroupInputs : Small(GroupBy(g))
    \/ \E o \in OrderInputs : Small(OrderBy(o[1], o[2]))
    \/ DiscardOrderBy
    \/ \E n \in LimitInputs : Small(Limit(n))
    \/ DiscardLimit
    \/ \E n \in OffsetInputs : Small(Offset(n))
    \/ DiscardOffset
    \/ \E fields \in DistinctInputs : Small(Distinct(fields))
    \/ \E of \in ForUpdateInputs : Small(ForUpdate(of))
    \/ Small(Extend)
    \/ Fresh(Select)
    \/ \E t \in SelectTargets : Fresh(SelectToTarget(t))
    \/ Fresh(Count)
    \/ Fresh(Insert)
    \/ Fresh(Update)
    \/ Fresh(Delete)
    \/ Fresh(Truncate)
    \/ WriterStoreJoin
    \/ WriterHook
    \/ WriterStep

Init ==
    /\ dialect \in Dialects
    /\ iface = "*QueryPlan"
    /\ withTX = NoTX
    /\ \E targetVal \in QueryTargets : InitPlan(targetVal)

Spec == Init /\ [][Next]_vars

(***************************************************************************)
(* SpecBind: a mapped plan with literals in every clause, to follow the    *)
(* bind variables through assignments, JOIN-ON, WHERE, ORDER BY and        *)
(* LIMIT/OFFSET.                                                           *)
(***************************************************************************)
BindEqualInputs == {<<BVal, Lit(2)>>}

BindFilterLists == {<<>>, <<filtersEqual(AName, Lit(1))>>}

BindOrderInputs ==
    {<<CaseWhen(<<WhenThen(filtersEqual(AName, Lit(6)), Lit(1))>>, Lit(0)), "Desc">>}

InitBind ==
    /\ dialect \in Dialects
    /\ iface = "*QueryPlan"
    /\ withTX = NoTX
    /\ InitPlan(PtrStruct("A"))

(* No terminal call has filled the argument list of the plan yet.          *)
Unrun == args = <<>> /\ argLen = 0

(* SpecBind follows the plans that are built and then run: every call is   *)
(* made on a plan whose argument list no terminal call has filled.         *)
NextBind ==
    \/ Unrun /\ Assign(AName, 7)
    \/ \E t \in JoinTargets : Unrun /\ Join(t)
    \/ \E fs \in BindFilterLists : Unrun /\ Where(fs)
    \/ \E e \in BindEqualInputs : Unrun /\ Equal(e[1], e[2])
    \/ \E o \in BindOrderInputs : Unrun /\ OrderBy(o[1], o[2])
    \/ \E n \in LimitInputs : Unrun /\ Limit(n)
    \/ \E n \in OffsetInputs : Unrun /\ Offset(n)
    \/ Unrun /\ Select
    \/ Unrun /\ Count
    \/ Unrun /\ Insert
    \/ Unrun /\ Update
    \/ Unrun /\ Delete
    \/ WriterStoreJoin
    \/ WriterStep

SpecBind == InitBind /\ [][NextBind]_vars

(***************************************************************************)
(* SpecJoin: a mapped plan, its joins and its filters: what Join, On,      *)
(* Filter and Where do to the joins list and to the active filter, and     *)
(* what Select and Delete then render.                                     *)
(***************************************************************************)
JoinFilterLists ==
    {<<>>, <<filtersEqual(AName, Lit(1))>>, <<filtersIn(AID, <<Lit(4), Lit(5)>>)>>}

NextJoin ==
    \/ \E t \in JoinTargets : Join(t)
    \/ \E t \in LeftJoinTargets : LeftJoin(t)
    \/ \E fs \in JoinFilterLists : On(fs)
    \/ \E fs \in JoinFilterLists : Where(fs)
    \/ Select
    \/ Delete
    \/ WriterStoreJoin
    \/ WriterStep

SpecJoin == InitBind /\ [][NextJoin]_vars

(***************************************************************************)
(* SpecClose: a mapped plan under construction only: up to MaxCloseJoins   *)
(* joins of either type, up to MaxCloseSub conditions on the open join or  *)
(* on the WHERE filter, passed to On and to Where one or two at a time.    *)
(***************************************************************************)
CloseFilterLists ==
    JoinFilterLists
    \cup {<<filtersIn(AID, <<Lit(4), Lit(5)>>), filtersEqual(AName, Lit(1))>>}

NextClose ==
    \/ \E t \in JoinTargets : JoinTypeWithin(MaxCloseJoins, "inner", t)
    \/ \E t \in LeftJoinTargets : JoinTypeWithin(MaxCloseJoins, "left outer", t)
    \/ \E fs \in CloseFilterLists : FilterCallWithin(MaxCloseSub, "On", fs)
    \/ \E fs \in CloseFilterLists : WhereWithin(MaxCloseSub, fs)

SpecClose == InitBind /\ [][NextClose]_vars

(***************************************************************************)
(* SpecOn: a join, its ON conditions, Where and the WHERE conditions, then *)
(* Select or Delete.  A condition compares a field with a literal or with a field of *)
(* the other table.                                                        *)
(***************************************************************************)
OnEqualInputs == {<<BAID, AID>>, <<AName, Lit(1)>>, <<BVal, Lit(2)>>}

NextOn ==
    \/ \E t \in JoinTargets : Join(t)
    \/ \E e \in OnEqualInputs : Equal(e[1], e[2])
    \/ Where(<<>>)
    \/ Select
    \/ Delete
    \/ WriterStoreJoin
    \/ WriterStep

SpecOn == InitBind /\ [][NextOn]_vars

(***************************************************************************)
(* SpecMap: Query on a pointer to each registered struct type, then Assign *)
(* with the address of an exported, a transient, an unexported and an      *)
(* unrelated variable, conditions on a mapped field, and the terminals     *)
(* that use the assignments and the conditions.                            *)
(***************************************************************************)
MapTargets == {PtrStruct(type) : type \in RegisteredTypes}

MapAssignFields == {AName, ATr, APriv, Unmapped}

InitMap ==
    /\ dialect \in Dialects
    /\ iface = "*QueryPlan"
    /\ withTX = NoTX
    /\ \E targetVal \in MapTargets : InitPlan(targetVal)

NextMap ==
    \/ \E f \in MapAssignFields : Assign(f, 7)
    \/ Where(<<>>)
    \/ Equal(AName, Lit(1))
    \/ Insert
    \/ Update
    \/ Select
    \/ WriterStoreJoin
    \/ WriterHook
    \/ WriterStep

SpecMap == InitMap /\ [][NextMap]_vars

(***************************************************************************)
(* SpecTree: a mapped plan whose WHERE filter is a tree of combinators,    *)
(* negations, IN lists, null tests, boolean tests, LIKE and comparisons,   *)
(* with a function wrapper or a CASE wrapper as an operand, rendered by    *)
(* Select and Delete.                                                      *)
(***************************************************************************)
TreeFilters ==
    LET core == {filtersEqual(AName, Lit(1)), filtersNull(AID),
                 filtersIn(AID, <<Lit(4), Lit(5)>>),
                 filtersEqual(CaseWhen(<<WhenThen(filtersEqual(AName, Lit(6)),
                                                  Lit(1))>>, Lit(0)), Lit(8)),
                 filtersAnd(<<>>)}
        leaves == core \cup {filtersLess(
                                CaseWhen(<<WhenThen(filtersNull(AID), Lit(1)),
                                           WhenThen(filtersIn(AID, <<Lit(4), Lit(5)>>),
                                                    Lower(AName))>>,
                                         NilValue),
                                Lit(9)),
                             filtersLike(AName, Lit(2)), filtersNotNull(AID),
                             filtersTrue(AID), filtersFalse(AID),
                             filtersLess(Lower(AName), Lit(3))}
        pairs == {filtersAnd(<<l, m>>) : l \in core, m \in core}
                 \cup {filtersOr(<<l, m>>) : l \in core, m \in core}
    IN  leaves \cup pairs
        \cup {filtersNot(filtersAnd(<<filtersEqual(AName, Lit(1)),
                                       filtersIn(AID, <<Lit(4), Lit(5)>>)>>)),
              filtersAnd(<<filtersOr(<<filtersEqual(AName, Lit(1)),
                                       filtersLike(AName, Lit(2))>>),
                           filtersNot(filtersNull(AID)),
                           filtersLess(Lower(AName), Lit(3))>>)}

NextTree ==
    \/ \E fs \in {<<>>} \cup {<<f>> : f \in TreeFilters} : Where(fs)
    \/ \E f \in {filtersNull(AID), filtersAnd(<<>>)} : Filter(<<f>>)
    \/ Select
    \/ Delete
    \/ WriterStoreJoin
    \/ WriterStep

SpecTree == InitBind /\ [][NextTree]_vars

(***************************************************************************)
(* SpecTypes: a mapped plan built by chaining each call on the interface  *)
(* the call before returned, starting from the Query interface.            *)
(***************************************************************************)
InitTypes ==
    /\ dialect \in Dialects
    /\ iface = "Query"
    /\ withTX = NoTX
    /\ InitPlan(PtrStruct("A"))

NextTypes ==
    \/ Assign(AName, 7)
    \/ \E t \in JoinTargets : Join(t)
    \/ On(<<filtersEqual(BAID, AID)>>)
    \/ Where(<<>>)
    \/ Filter(<<filtersNull(AID)>>)
    \/ Equal(AName, Lit(1))
    \/ FieldTest("False", ATr)
    \/ \E n \in LimitInputs : Limit(n)
    \/ Extend
    \/ Select
    \/ Count
    \/ Insert
    \/ Update
    \/ Delete
    \/ Truncate
    \/ WriterStoreJoin
    \/ WriterStep

SpecTypes == InitTypes /\ [][NextTypes]_vars

(***************************************************************************)
(* Observations used by the properties.                                    *)
(***************************************************************************)
TerminalOps == {"Select", "Count", "Insert", "Update", "Delete", "Truncate"}

Executed == last.exec # "none"

BindVals(toks) == [n \in 1..Len(Binds(toks)) |-> Binds(toks)[n].v]

HasText(toks, str) == \E n \in 1..Len(toks) : toks[n].s = str

(* The literals among a list of values, wrappers opened, in order.         *)
RECURSIVE LiteralsOf(_)
LiteralsOf(values) ==
    IF values = <<>> THEN <<>>
    ELSE LET value == Head(values)
         IN  (CASE value.k = "lit" -> <<value.n>>
                [] value.k = "fn" -> LiteralsOf(<<value.actualValue>>)
                [] value.k = "case" -> LiteralsOf(CaseActualValues(value))
                [] OTHER -> <<>>)
             \o LiteralsOf(Tail(values))

AssignLiterals == assignArgs

WhereLiterals == IF filters = NilFilter THEN <<>> ELSE LiteralsOf(ActualValues(filters))

JoinLiterals ==
    Flatten([n \in 1..Len(joins) |-> LiteralsOf(ActualValues(joins[n]))])

OrderLiterals ==
    Flatten([n \in 1..Len(orderBy) |-> LiteralsOf(<<orderBy[n].fieldOrWrapper>>)])

LimitLiteral == IF limit > 0 THEN <<limit>> ELSE <<>>

OffsetLiteral == IF offset > 0 THEN <<offset>> ELSE <<>>

InvalidDirection(direction) == ToLower(direction) \notin {"", "asc", "desc"}

(***************************************************************************)
(* C1: on a plan whose error list is non-empty, every terminal method      *)
(* returns Errors[0] and the executor receives no SQL.  Count and Truncate *)
(* never look at the error list.                                           *)
(***************************************************************************)
C1_FirstErrorReturned ==
    (panicked = "" /\ last.op \in TerminalOps /\ Len(Errors) > 0)
        => (last.err = Errors[1] /\ ~Executed)

(***************************************************************************)
(* C2: after Query on a target that is not a pointer to a registered       *)
(* struct, a terminal call does not panic and returns a non-nil error.     *)
(* The plan's target is left unset and resetArgs reads it.                 *)
(***************************************************************************)
C2_BadTargetTerminalSafe ==
    (target = NoTarget /\ last.op \in TerminalOps)
        => (panicked = "" /\ last.err # NoErr)

(***************************************************************************)
(* C3: when resolving a value fails while Select, Count, Update or Delete  *)
(* assembles its SQL, the call returns a non-nil error and the executor is *)
(* not invoked.                                                            *)
(***************************************************************************)
C3_RenderErrorReturned ==
    (last.op \in {"Select", "Count", "Update", "Delete"} /\ last.renderErr # NoErr)
        => (last.err # NoErr /\ ~Executed)

(***************************************************************************)
(* C4: in every executed statement the placeholder produced by BindVar(i)  *)
(* stands for element i of the argument slice, and there are as many       *)
(* placeholders as arguments.                                              *)
(***************************************************************************)
C4_PlaceholdersIndexArgs ==
    Executed =>
        /\ Len(Binds(last.query)) = Len(last.qargs)
        /\ \A n \in 1..Len(Binds(last.query)) :
              /\ Binds(last.query)[n].i < Len(last.qargs)
              /\ last.qargs[Binds(last.query)[n].i + 1] = Binds(last.query)[n].v

(***************************************************************************)
(* C5: read left to right, the placeholders of an executed statement       *)
(* correspond one-to-one and in order to the argument slice (stated for    *)
(* the statements that have as many placeholders as arguments).            *)
(***************************************************************************)
C5_TextOrderMatchesArgs ==
    (Executed /\ Len(Binds(last.query)) = Len(last.qargs))
        => BindVals(last.query) = last.qargs

(***************************************************************************)
(* The literals of the clauses a statement has, in the order of the        *)
(* clauses: the assignments; in every statement but INSERT the joins' ON   *)
(* conditions and the WHERE conditions, as ordered by the caller; in       *)
(* SELECT and SELECT COUNT the ORDER BY entries, the limit and the offset, *)
(* as ordered by the caller.                                               *)
(***************************************************************************)
ClauseLiterals(joinAndWhere, limitAndOffset) ==
    AssignLiterals
    \o (IF last.op = "Insert" THEN <<>> ELSE joinAndWhere)
    \o (IF last.op \in {"Select", "Count"}
        THEN OrderLiterals \o limitAndOffset ELSE <<>>)

(***************************************************************************)
(* C6, as stated: the arguments of a statement are the assignment values,  *)
(* then the WHERE literals, then the JOIN-ON literals, then the ORDER BY   *)
(* literals, then LIMIT, then OFFSET.                                      *)
(***************************************************************************)
C6_ClaimedArgOrder ==
    (Executed /\ last.op \in {"Select", "Count", "Insert", "Update", "Delete"})
        => last.qargs = ClauseLiterals(WhereLiterals \o JoinLiterals,
                                       LimitLiteral \o OffsetLiteral)

(***************************************************************************)
(* C6, amended: the arguments of a statement are the assignment values,    *)
(* then the JOIN-ON literals, then the WHERE literals, then the ORDER BY   *)
(* literals, then LIMIT followed by OFFSET on a dialect with the           *)
(* non-standard Limit, and OFFSET followed by LIMIT on any other dialect.  *)
(***************************************************************************)
C6_SelectArgOrder ==
    (Executed /\ last.op \in {"Select", "Count", "Insert", "Update", "Delete"})
        => last.qargs = ClauseLiterals(JoinLiterals \o WhereLiterals,
                                       IF NonstandardLimiter(dialect)
                                       THEN LimitLiteral \o OffsetLiteral
                                       ELSE OffsetLiteral \o LimitLiteral)

C6_Witness ==
    /\ Executed /\ last.op = "Select" /\ ~NonstandardLimiter(dialect)
    /\ AssignLiterals # <<>> /\ OrderLiterals # <<>>
    /\ JoinLiterals # <<>> /\ WhereLiterals # <<>>
    /\ JoinLiterals \o WhereLiterals # WhereLiterals \o JoinLiterals
    /\ limit > 0 /\ offset > 0 /\ limit # offset

(***************************************************************************)
(* C7: no executed statement contains an IN () fragment.  An IN filter     *)
(* built with zero values is accepted and rendered.                        *)
(***************************************************************************)
C7_NoEmptyIn ==
    Executed =>
        ~\E n \in 1..(Len(last.query) - 1) :
              last.query[n].s = " IN (" /\ last.query[n + 1].s = ")"

(***************************************************************************)
(* C8: an OrderBy call with a direction other than "", "asc" or "desc"     *)
(* adds an error to the plan's error list, so no plan holds an order entry *)
(* with such a direction and an empty error list.                          *)
(***************************************************************************)
C8_InvalidDirectionCollected ==
    (\E n \in 1..Len(orderBy) : InvalidDirection(orderBy[n].direction))
        => Len(Errors) > 0

(***************************************************************************)
(* C9: the statement of Count has no ORDER BY, GROUP BY, LIMIT/FETCH or    *)
(* OFFSET clause and binds no argument for them.                           *)
(***************************************************************************)
C9_CountSuffix ==
    (Executed /\ last.op = "Count")
        => /\ ~HasText(last.query, " order by ")
           /\ ~HasText(last.query, " group by ")
           /\ ~HasText(last.query, "limit ")
           /\ ~HasText(last.query, " fetch next (")
           /\ ~HasText(last.query, " offset ")
           /\ last.qargs = AssignLiterals \o JoinLiterals \o WhereLiterals

(***************************************************************************)
(* C10: a Where call made while a join filter is open appends that join    *)
(* filter, with exactly the conditions added since its Join call, as the   *)
(* last element of the joins list, and the active filter becomes a new     *)
(* AND-combinator holding only the filters passed to this call.            *)
(***************************************************************************)
C10_WhereClosesJoin ==
    [][\A fs \in CloseFilterLists :
          (WhereWithin(MaxCloseSub, fs) /\ filters.kind = "join")
              => /\ joins' = Append(joins, [filters EXCEPT !.subFilters = sinceJoin])
                 /\ filters' = [kind |-> "and", subFilters |-> fs]]_vars

(* Two joins are stored, the second one closed by a Where call: they       *)
(* differ, the last one holds two different conditions, and the active     *)
(* filter is an AND-combinator of two filters.                             *)
C10_Witness ==
    /\ last.op = "none" /\ panicked = ""
    /\ Len(joins) = 2 /\ joins[1] # joins[2]
    /\ joins[1].subFilters # <<>>
    /\ Len(joins[2].subFilters) = 2
    /\ joins[2].subFilters[1] # joins[2].subFilters[2]
    /\ filters.kind = "and" /\ Len(filters.subFilters) = 2

(***************************************************************************)
(* C11: on a mapped plan, the conditions added after Join(t) go onto the   *)
(* open join filter, Where() stores that join with them and opens an empty *)
(* AND filter, the conditions added after Where() go onto that filter, and *)
(* Select renders FROM the target table, then the join of t with an ON     *)
(* clause of exactly the join's conditions, then a WHERE clause of exactly *)
(* the later conditions; the arguments are the literals of the conditions  *)
(* in that order, a condition between two field pointers binding none.     *)
(***************************************************************************)
C11_JoinOnWhereSelect ==
    [][/\ \A e \in OnEqualInputs :
             (Equal(e[1], e[2]) /\ filters # NilFilter)
                 => /\ filters' = [filters EXCEPT !.subFilters =
                                      Append(@, filtersEqual(e[1], e[2]))]
                    /\ joins' = joins
       /\ (Where(<<>>) /\ filters.kind = "join")
             => /\ joins' = Append(joins, filters)
                /\ filters' = [kind |-> "and", subFilters |-> <<>>]
       /\ (WriterReturn /\ goroutines.writer.op = "Select"
            /\ Errors = <<>> /\ Len(joins) = 1
            /\ filters.kind = "and" /\ joins[1].subFilters # <<>>
            /\ filters.subFilters # <<>>)
             => LET on == resolveAll(ActualValues(joins[1]), <<>>)
                    where == resolveAll(ActualValues(filters), on.args)
                IN  /\ last'.err = NoErr
                    /\ last'.query =
                          writeSelectColumns(<<>>).sql
                          \o Txt(" from " \o QuotedTableForQuery(TableName("A")))
                          \o Txt(" ")
                          \o Txt("inner join " \o QuotedTableForQuery(TableName("B")))
                          \o Txt(" on ") \o FilterWhere(joins[1], on.sqls)
                          \o Txt(" where ") \o FilterWhere(filters, where.sqls)
                    /\ last'.qargs = LiteralsOf(ActualValues(joins[1]))
                                     \o LiteralsOf(ActualValues(filters))]_vars

C11_Witness ==
    /\ last.op = "Select" /\ Executed
    /\ Len(joins) = 1 /\ joins[1].subFilters = <<filtersEqual(BAID, AID)>>
    /\ filters = [kind |-> "and", subFilters |-> <<filtersEqual(AName, Lit(1))>>]
    /\ last.qargs = <<1>>
    /\ QueryText(last.query) =
          "select \"a\".\"id\" AS id,\"a\".\"name\" AS name from \"a\" inner join \"b\" on \"b\".\"aid\"=\"a\".\"id\" where \"a\".\"name\"="
          \o BindVarText(dialect, 0)

(***************************************************************************)
(* C12: in the statement Update or Delete sends, every table joined before *)
(* the call is in the FROM list (Update) or the USING list (Delete), and   *)
(* there is a WHERE clause whenever a join has conditions, whether or not  *)
(* Where was called after the last join.                                   *)
(***************************************************************************)
C12_JoinedTablesInUpdateDelete ==
    (last.op \in {"Update", "Delete"} /\ Executed)
        => \A n \in 1..Len(storedJoins) :
              /\ HasText(last.query,
                         IF last.op = "Update" THEN " from " ELSE " using ")
              /\ HasText(last.query, storedJoins[n].QuotedJoinTable)
              /\ storedJoins[n].subFilters # <<>>
                    => HasText(last.query, " where ")

(***************************************************************************)
(* C13: Assign with the address of a transient field, of an unexported     *)
(* field or of something that is no field of the reference struct (on a    *)
(* plan whose Query failed, any address) appends an error and leaves the   *)
(* assignment columns, placeholders and values as they were.               *)
(***************************************************************************)
C13_BadAssignOnlyAddsError ==
    [][\A f \in MapAssignFields :
          (/\ Assign(f, 7)
           /\ \/ target = NoTarget
              \/ \A n \in 1..Len(TableColumns(target.type)) :
                    LET col == TableColumns(target.type)[n]
                    IN  f = FieldPtr(target.type, col.fieldName)
                           => col.Transient \/ ~col.exported)
              => /\ Len(Errors') > Len(Errors)
                 /\ UNCHANGED <<assignCols, assignBindVars, assignArgs>>]_vars

C13_Witness ==
    /\ target = PtrStruct("A")
    /\ \E n \in 1..Len(Errors) : Errors[n] = ErrTransient
    /\ \E n \in 1..Len(Errors) : Errors[n] = ErrFieldNotFound
    /\ assignCols = <<>> /\ assignBindVars = <<>> /\ assignArgs = <<>>

(***************************************************************************)
(* The SQL of a value and of a filter node when every node resolves its    *)
(* own values itself, in order, starting from the argument list as.        *)
(***************************************************************************)
RECURSIVE NodeSql(_, _)
RECURSIVE ValueSql(_, _)
RECURSIVE ValuesSql(_, _)
RECURSIVE NodesSql(_, _, _, _)
RECURSIVE WhensSql(_, _)
ValueSql(value, as) ==
    CASE value.k = "lit" ->
            [sql |-> BindVar(dialect, Len(as), value.n), args |-> Append(as, value.n)]
      [] value.k = "ptr" ->
            [sql |-> Txt(LocateTableAndColumn(colMap, value).column), args |-> as]
      [] value.k = "fn" ->
            The({ [sql |-> Txt(value.functionName \o "(") \o r.sql \o Txt(")"),
                   args |-> r.args]
                  : r \in {ValueSql(value.actualValue, as)} })
      [] value.k = "case" ->
            The({ IF value.elseValue = NilValue
                  THEN [sql |-> Txt("CASE") \o w.sql \o Txt(" END"), args |-> w.args]
                  ELSE The({ [sql |-> Txt("CASE") \o w.sql \o Txt(" ELSE ")
                                      \o e.sql \o Txt(" END"),
                              args |-> e.args]
                             : e \in {ValueSql(value.elseValue, w.args)} })
                  : w \in {WhensSql(value.whenValues, as)} })

(* One string per value. *)
ValuesSql(values, as) ==
    IF values = <<>> THEN [sqls |-> <<>>, args |-> as]
    ELSE The({ The({ [sqls |-> <<r.sql>> \o rest.sqls, args |-> rest.args]
                     : rest \in {ValuesSql(Tail(values), r.args)} })
               : r \in {ValueSql(Head(values), as)} })

WhensSql(whens, as) ==
    IF whens = <<>> THEN [sql |-> <<>>, args |-> as]
    ELSE The({ The({ The({
           [sql |-> Txt(" WHEN ") \o w.sql \o Txt(" THEN ") \o t.sql \o rest.sql,
            args |-> rest.args]
           : rest \in {WhensSql(Tail(whens), t.args)} })
           : t \in {ValueSql(Head(whens).then, w.args)} })
           : w \in {NodeSql(Head(whens).when, as)} })

(* seen: the number of values of the sub-filters before subs.              *)
NodesSql(subs, separator, as, seen) ==
    IF subs = <<>> THEN [sql |-> <<>>, args |-> as]
    ELSE The({ The({
           [sql |-> (IF seen # 0 THEN Txt(separator) ELSE <<>>) \o r.sql \o rest.sql,
            args |-> rest.args]
           : rest \in {NodesSql(Tail(subs), separator, r.args,
                                 seen + Len(ActualValues(Head(subs))))} })
           : r \in {NodeSql(Head(subs), as)} })

NodeSql(f, as) ==
    CASE f.kind = "cmp" ->
            The({ The({ [sql |-> l.sql \o Txt(f.Comparison) \o r.sql, args |-> r.args]
                        : r \in {ValueSql(f.Right, l.args)} })
                  : l \in {ValueSql(f.Left, as)} })
      [] f.kind = "in" ->
            The({ The({ [sql |-> e.sql \o Txt(" IN (")
                                \o JoinWith(vs.sqls, Txt(", ")) \o Txt(")"),
                         args |-> vs.args]
                        : vs \in {ValuesSql(f.valueList, e.args)} })
                  : e \in {ValueSql(f.expression, as)} })
      [] f.kind = "true" -> ValueSql(f.field, as)
      [] f.kind = "null" ->
            The({ [sql |-> r.sql \o Txt(" is null"), args |-> r.args]
                  : r \in {ValueSql(f.field, as)} })
      [] f.kind = "notnull" ->
            The({ [sql |-> r.sql \o Txt(" is not null"), args |-> r.args]
                  : r \in {ValueSql(f.field, as)} })
      [] f.kind = "not" ->
            The({ [sql |-> Txt("not ") \o r.sql, args |-> r.args]
                  : r \in {NodeSql(f.filter, as)} })
      [] IsCombined(f) ->
            The({ [sql |-> (IF Len(f.subFilters) > 1 THEN Txt("(") ELSE <<>>)
                           \o r.sql
                           \o (IF Len(f.subFilters) > 1 THEN Txt(")") ELSE <<>>),
                   args |-> r.args]
                  : r \in {NodesSql(f.subFilters, Separator(f), as, 0)} })

(***************************************************************************)
(* C14: when Select or Delete renders the WHERE filter tree, one string is *)
(* resolved per value of the tree, and the text and the arguments are      *)
(* those obtained when every filter node (combinator, negation, IN list,   *)
(* null test, boolean test, LIKE, comparison, also inside a CASE wrapper)  *)
(* is rendered from the strings of exactly its own values, in order.       *)
(***************************************************************************)
C14_NodesGetOwnValues ==
    (last.op \in {"Select", "Delete"} /\ Executed /\ filters # NilFilter)
        => LET r == resolveAll(ActualValues(filters), <<>>)
               node == NodeSql(filters, <<>>)
               where == IF QueryText(node.sql) # ""
                        THEN Txt(" where ") \o node.sql ELSE <<>>
           IN  /\ r.err = NoErr
               /\ Len(r.sqls) = Len(ActualValues(filters))
               /\ FilterWhere(filters, r.sqls) = node.sql
               /\ last.qargs = node.args
               /\ last.query =
                     (IF last.op = "Select"
                      THEN writeSelectColumns(<<>>).sql \o Txt(" from " \o quotedTable)
                      ELSE Txt("delete from " \o QuotedTableForQuery(table)))
                     \o where

C14_Witness ==
    /\ last.op = "Select" /\ Executed
    /\ filters.kind = "and" /\ Len(filters.subFilters) = 1
    /\ filters.subFilters[1].kind = "and"
    /\ Len(filters.subFilters[1].subFilters) = 3
    /\ last.qargs = <<1, 2, 3>>

(***************************************************************************)
(* C15: in a Select with a positive limit and a positive offset, a dialect *)
(* with the non-standard Limit has its limit clause before the offset      *)
(* clause and no fetch clause; any other dialect has the clause            *)
(* "fetch next (n) rows only", n bound to the limit, after the offset      *)
(* clause and no other limit clause.                                       *)
(***************************************************************************)
C15_LimitOffsetOrder ==
    (last.op = "Select" /\ Executed /\ limit > 0 /\ offset > 0)
        => LET q == last.query
           IN  IF NonstandardLimiter(dialect)
               THEN /\ \E i, j \in 1..Len(q) :
                          /\ i < j /\ q[i].s = "limit " /\ q[j].s = " offset "
                          /\ IsBind(q[i + 1]) /\ q[i + 1].v = limit
                    /\ ~HasText(q, " fetch next (")
               ELSE /\ \E i, j \in 1..(Len(q) - 2) :
                          /\ i < j /\ q[i].s = " offset " /\ q[j].s = " fetch next ("
                          /\ IsBind(q[j + 1]) /\ q[j + 1].v = limit
                          /\ q[j + 2].s = ") rows only"
                    /\ ~HasText(q, "limit ")

C15_Witness ==
    /\ last.op = "Select" /\ Executed /\ limit > 0 /\ offset > 0
    /\ ~NonstandardLimiter(dialect)
    /\ HasText(last.query, " fetch next (") /\ HasText(last.query, " offset ")

(***************************************************************************)
(* C16: a terminal call that returns without an error has sent one         *)
(* statement to the executor the plan was created with.                    *)
(***************************************************************************)
C16_ExecutorOncePerTerminal ==
    (last.op \in TerminalOps /\ panicked = "" /\ last.err = NoErr)
        => last.exec = "executor" /\ last.query # <<>>

(***************************************************************************)
(* C17: in a chain of calls made on the returned interfaces, the terminal  *)
(* methods of the interface Assign returns are Insert and Update, those of *)
(* the interface Assign(...).Where(...) returns are Update alone, also     *)
(* after any number of comparison methods; so a terminal call made after   *)
(* an assignment is an Insert or an Update, and after an assignment and a  *)
(* Where it is an Update.                                                  *)
(***************************************************************************)
C17_TerminalsAfterAssign ==
    LET terminals == TerminalOps \cup {"SelectToTarget"}
    IN  /\ iface = "AssignQuery"
              => Methods(iface) \cap terminals = {"Insert", "Update"}
        /\ iface = "UpdateQuery"
              => /\ Methods(iface) \cap terminals = {"Update"}
                 /\ \A m \in Methods(iface) \ terminals : Returns(iface, m) = iface
        /\ (iface # "*QueryPlan" /\ last.op \in terminals /\ assignCols # <<>>)
              => /\ last.op \in {"Insert", "Update"}
                 /\ filters.kind = "and" => last.op = "Update"

C17_Witness ==
    /\ iface = "UpdateQuery" /\ last.op = "Update" /\ Executed
    /\ assignCols # <<>> /\ filters.kind = "and" /\ filters.subFilters # <<>>

(***************************************************************************)
(* C18: Join, called on the Query interface or on the interface a Join     *)
(* returned, returns an interface that offers On, the comparison methods,  *)
(* Where, Delete and Select, and opens a join filter, which is what On and *)
(* the comparison methods then add to.                                     *)
(***************************************************************************)
C18_JoinQueryOffers ==
    [][\A t \in JoinTargets :
          (Join(t) /\ iface \in {"Query", "JoinQuery"})
              => /\ iface' = "JoinQuery"
                 /\ ({"On", "Where", "Delete", "Select"} \cup Comparisons)
                       \subseteq Methods(iface')
                 /\ filters'.kind = "join"
                 /\ \A m \in {"On"} \cup Comparisons : Returns(iface', m) = iface']_vars

(***************************************************************************)
(* The exported, non-transient fields of a struct type.                    *)
(***************************************************************************)
QueryableFields(type) ==
    SelectSeq(TableColumns(type), LAMBDA c : c.exported /\ ~c.Transient)

(***************************************************************************)
(* C19: Query on a pointer to a registered struct with no exported,        *)
(* non-transient field (no field at all, transient fields only, unexported *)
(* fields only) yields a plan with a non-empty error list; a plan that     *)
(* kept its target has a target with such a field, and a plan that did not *)
(* has errors.                                                             *)
(***************************************************************************)
C19_NoMappableFieldIsError ==
    /\ \A type \in RegisteredTypes :
          QueryableFields(type) = <<>> => Query(PtrStruct(type)).Errors # <<>>
    /\ target # NoTarget => QueryableFields(target.type) # <<>>
    /\ target = NoTarget => Errors # <<>>

C19_Witness ==
    /\ last.op = "none" /\ target = NoTarget
    /\ Errors = <<ErrNoMappable>>
    /\ Len(colMap) = 1 /\ colMap[1].column.Transient

(***************************************************************************)
(* C20: Query on a pointer to a registered struct with at least one        *)
(* exported, non-transient field yields a plan without errors, and on that *)
(* plan the address of every exported, non-transient field resolves,       *)
(* through LocateColumn to the quoted column of the field and through      *)
(* LocateTableAndColumn to the quoted table and column of the field.       *)
(***************************************************************************)
C20_MappableFieldsResolve ==
    /\ \A type \in RegisteredTypes :
          QueryableFields(type) # <<>>
              => /\ Query(PtrStruct(type)).Errors = <<>>
                 /\ Query(PtrStruct(type)).target = PtrStruct(type)
    /\ target # NoTarget
          => \A n \in 1..Len(QueryableFields(target.type)) :
                LET col == QueryableFields(target.type)[n]
                    fieldPtr == FieldPtr(target.type, col.fieldName)
                IN  /\ LocateColumn(colMap, fieldPtr)
                          = [err |-> NoErr, column |-> QuoteField(col.ColumnName)]
                    /\ LocateTableAndColumn(colMap, fieldPtr)
                          = [err |-> NoErr,
                             column |-> QuotedTableForQuery(TableName(target.type))
                                        \o "." \o QuoteField(col.ColumnName)]

C20_Witness ==
    /\ target = PtrStruct("A") /\ Errors = <<>>
    /\ last.op = "Update" /\ Executed
    /\ assignCols = <<QuoteField("name")>>
    /\ filters.kind = "and" /\ filters.subFilters # <<>>

(***************************************************************************)
(* C21: LocateColumn and LocateTableAndColumn fail with the "cannot find a *)
(* field" error and return the empty column string for every address that *)
(* is not the field of any entry of the plan's column map: the address of  *)
(* an unrelated variable, of an unexported field, or of a field of a       *)
(* struct that was not made part of the plan.                              *)
(***************************************************************************)
CandidatePtrs == {Unmapped, APriv, AName, AID, ATr, BAID, BVal}

UnregisteredPtrs ==
    {p \in CandidatePtrs : \A n \in 1..Len(colMap) : colMap[n].field # p}

C21_UnregisteredNotMapped ==
    \A p \in UnregisteredPtrs :
        /\ LocateColumn(colMap, p) = [err |-> ErrFieldNotFound, column |-> ""]
        /\ LocateTableAndColumn(colMap, p)
             = [err |-> ErrFieldNotFound, column |-> ""]

C21_Witness ==
    /\ Len(colMap) > 0
    /\ {Unmapped, APriv, BAID} \subseteq UnregisteredPtrs
    /\ AName \notin UnregisteredPtrs
    /\ ErrFieldNotFound \in {Errors[n] : n \in 1..Len(Errors)}
    /\ assignCols = <<>>
    /\ panicked = ""

(***************************************************************************)
(* Plans on every registered type, with transient and ordinary fields used *)
(* as assignment targets, GROUP BY columns and filter values.              *)
(***************************************************************************)
TransientEqualInputs == {<<ATr, Lit(1)>>, <<AName, ATr>>, <<AName, Lit(1)>>}

NextTransient ==
    \/ \E f \in {AName, ATr} : Assign(f, 7)
    \/ \E f \in GroupInputs : GroupBy(f)
    \/ \E f \in {AName, ATr, FieldPtr("V", "Val")} : AddField(f)
    \/ \E f \in {AName, ATr, FieldPtr("V", "Val")} : Fields(f)
    \/ \E e \in TransientEqualInputs : Equal(e[1], e[2])
    \/ Where(<<>>)
    \/ Select
    \/ Count
    \/ Insert
    \/ Update
    \/ Delete
    \/ WriterStoreJoin
    \/ WriterHook
    \/ WriterStep

SpecTransient == InitMap /\ [][NextTransient]_vars

(***************************************************************************)
(* C22: a transient column of the plan's target is in no rendered          *)
(* statement and in no assignment or GROUP BY list; Assign and GroupBy on  *)
(* its address record the transient-column error and add nothing; and a    *)
(* statement whose WHERE clause uses its address as a value fails with an  *)
(* error instead of being executed.                                        *)
(***************************************************************************)
TransientEntries ==
    {n \in 1..Len(colMap) : colMap[n].column.Transient
                            /\ colMap[n].selectTarget = colMap[n].field}

TransientPtrs == {colMap[n].field : n \in TransientEntries}

TransientNames ==
    {colMap[n].quotedColumn : n \in TransientEntries}
    \cup {colMap[n].quotedTable \o "." \o colMap[n].quotedColumn
          : n \in TransientEntries}

WhereUsesTransient ==
    /\ filters # NilFilter
    /\ \E n \in 1..Len(ActualValues(filters)) :
          ActualValues(filters)[n] \in TransientPtrs

C22_TransientExcluded ==
    /\ [](/\ \A n \in 1..Len(last.query) : last.query[n].s \notin TransientNames
          /\ \A n \in 1..Len(assignCols) : assignCols[n] \notin TransientNames
          /\ \A n \in 1..Len(groupBy) : groupBy[n] \notin TransientNames
          /\ (last.op \in {"Select", "Count", "Update", "Delete"}
              /\ panicked = "" /\ WhereUsesTransient)
             => (last.err # NoErr /\ ~Executed))
    /\ [][\A f \in TransientPtrs :
            (Assign(f, 7) \/ GroupBy(f))
            => /\ Errors' = Append(Errors, ErrTransient)
               /\ UNCHANGED <<assignCols, assignArgs, groupBy>>]_vars

(***************************************************************************)
(* Plans whose WHERE clause is built with the named comparison methods.    *)
(***************************************************************************)
NextCompare ==
    \/ Where(<<>>)
    \/ \E method \in (Comparisons \ {"Null", "NotNull"}) \cup {"Like"} :
          \E e \in EqualInputs : Compare(method, e[1], e[2])
    \/ Select
    \/ Count
    \/ Delete
    \/ WriterStoreJoin
    \/ WriterStep

SpecCompare == InitBind /\ [][NextCompare]_vars

(***************************************************************************)
(* C23: each named comparison method adds a condition that renders as      *)
(* left OP right with the operator of its name: Equal =, NotEqual <>,      *)
(* Less <, LessOrEqual <=, Greater >, GreaterOrEqual >=, Like like.        *)
(***************************************************************************)
OperatorOf(method) ==
    CASE method = "Equal" -> "="
      [] method = "NotEqual" -> "<>"
      [] method = "Less" -> "<"
      [] method = "LessOrEqual" -> "<="
      [] method = "Greater" -> ">"
      [] method = "GreaterOrEqual" -> ">="
      [] method = "Like" -> " like "

C23_OwnOperator ==
    [][\A method \in (Comparisons \ {"Null", "NotNull"}) \cup {"Like"} :
         \A e \in EqualInputs :
            (Compare(method, e[1], e[2]) /\ filters # NilFilter)
            => FilterWhere(filters'.subFilters[Len(filters'.subFilters)],
                           <<Txt("left"), Txt("right")>>)
               = Txt("left") \o Txt(OperatorOf(method)) \o Txt("right")]_vars

(***************************************************************************)
(* C24: an AND/OR combinator with exactly one sub-filter renders as that   *)
(* sub-filter's fragment, with no parentheses of its own; with two or more *)
(* sub-filters its fragment is "(", the sub-filters' fragments with the    *)
(* separators, and ")".  Stated for every combinator   of the WHERE tree.   *)
(***************************************************************************)
RECURSIVE CombinatorNodes(_)
CombinatorNodes(f) ==
    CASE f.kind = "not" -> CombinatorNodes(f.filter)
      [] IsCombined(f) ->
            {f} \cup UNION {CombinatorNodes(f.subFilters[n])
                            : n \in 1..Len(f.subFilters)}
      [] OTHER -> {}

Slots(f) ==
    [n \in 1..Len(ActualValues(f)) |-> <<[s |-> "v", i |-> -1, v |-> n]>>]

C24_ParenthesesByArity ==
    filters # NilFilter =>
        \A f \in CombinatorNodes(filters) :
            LET sql == FilterWhere(f, Slots(f))
                inner == CombinedWhere(f.subFilters, Separator(f), Slots(f), 0)
            IN  /\ Len(f.subFilters) = 1
                   => sql = FilterWhere(f.subFilters[1], Slots(f))
                /\ Len(f.subFilters) > 1
                   => sql = Txt("(") \o inner \o Txt(")")

C24_Witness ==
    /\ last.op = "Select" /\ Executed
    /\ filters.kind = "and" /\ Len(filters.subFilters) = 1
    /\ filters.subFilters[1].kind = "or"
    /\ Len(filters.subFilters[1].subFilters) = 2
    /\ Len(SelectSeq(last.query, LAMBDA tok : tok.s = "(")) = 1
    /\ HasText(last.query, " or ")

(***************************************************************************)
(* C25: for every field pointer, False(fieldPtr) has the single value      *)
(* fieldPtr, as True(fieldPtr) has, and renders as "not " followed by the  *)
(* fragment of True(fieldPtr); so a statement filtered by False(fieldPtr)  *)
(* ends in " where not <column>" where one filtered by True(fieldPtr) ends *)
(* in " where <column>".                                                   *)
(***************************************************************************)
EndsWith(toks, suffix) ==
    /\ Len(suffix) <= Len(toks)
    /\ SubSeq(toks, Len(toks) - Len(suffix) + 1, Len(toks)) = suffix

C25_FalseIsNotTrue ==
    \A p \in CandidatePtrs :
        LET column == Txt(LocateTableAndColumn(colMap, p).column)
        IN  /\ ActualValues(filtersFalse(p)) = <<p>>
            /\ ActualValues(filtersTrue(p)) = <<p>>
            /\ FilterWhere(filtersFalse(p), <<column>>)
                 = Txt("not ") \o FilterWhere(filtersTrue(p), <<column>>)
            /\ (last.op \in {"Select", "Delete"} /\ Executed
                /\ filters = FilterAdd(NewAndFilter, <<filtersTrue(p)>>))
               => EndsWith(last.query, Txt(" where ") \o column)
            /\ (last.op \in {"Select", "Delete"} /\ Executed
                /\ filters = FilterAdd(NewAndFilter, <<filtersFalse(p)>>))
               => /\ EndsWith(last.query,
                              Txt(" where ") \o Txt("not ") \o column)
                  /\ last.qargs = <<>>

C25_Witness ==
    /\ last.op = "Select" /\ Executed
    /\ filters = FilterAdd(NewAndFilter, <<filtersFalse(AID)>>)
    /\ EndsWith(last.query, Txt(" where ") \o Txt("not ") \o Txt("\"a\".\"id\""))

(***************************************************************************)
(* C26: for every CASE WHEN wrapper among the values of the WHERE tree,    *)
(* the value list is each condition's values followed by the pair's THEN   *)
(* value, pair by pair, then the ELSE value if there is one; WrapSql puts  *)
(* one resolved string per value into the text, in the order of the list,  *)
(* every string once, between one WHEN and one THEN per pair and after one *)
(* ELSE if there is one; and the executed statement binds the literals of  *)
(* the list in that order.                                                 *)
(***************************************************************************)
CaseValuesOf(f) ==
    {ActualValues(f)[n] : n \in {m \in 1..Len(ActualValues(f)) :
                                    ActualValues(f)[m].k = "case"}}

RECURSIVE PairValues(_)
PairValues(whens) ==
    IF whens = <<>> THEN <<>>
    ELSE ActualValues(Head(whens).when) \o <<Head(whens).then>>
         \o PairValues(Tail(whens))

CaseSlots(c) ==
    [n \in 1..Len(CaseActualValues(c)) |-> <<[s |-> "v", i |-> -1, v |-> n]>>]

CountText(toks, str) == Len(SelectSeq(toks, LAMBDA tok : tok.s = str))

C26_CaseValuesInOrder ==
    filters # NilFilter =>
        /\ \A c \in CaseValuesOf(filters) :
             LET sql == CaseWrapSql(c, CaseSlots(c))
                 used == SelectSeq(sql, LAMBDA tok : tok.s = "v")
             IN  /\ CaseActualValues(c)
                      = PairValues(c.whenValues)
                        \o (IF c.elseValue # NilValue THEN <<c.elseValue>>
                            ELSE <<>>)
                 /\ used = [n \in 1..Len(CaseActualValues(c)) |->
                              [s |-> "v", i |-> -1, v |-> n]]
                 /\ CountText(sql, " WHEN ") = Len(c.whenValues)
                 /\ CountText(sql, " THEN ") = Len(c.whenValues)
                 /\ CountText(sql, " ELSE ")
                      = (IF c.elseValue # NilValue THEN 1 ELSE 0)
                 /\ sql[1].s = "CASE" /\ sql[Len(sql)].s = " END"
        /\ (last.op \in {"Select", "Delete"} /\ Executed)
           => /\ last.qargs = BindVals(last.query)
              /\ \A c \in CaseValuesOf(filters) :
                    \A n \in 1..Len(CaseActualValues(c)) :
                       CaseActualValues(c)[n].k = "lit"
                       => \E m \in 1..Len(last.qargs) :
                             last.qargs[m] = CaseActualValues(c)[n].n

C26_Witness ==
    /\ last.op = "Select" /\ Executed
    /\ filters # NilFilter
    /\ \E c \in CaseValuesOf(filters) :
          /\ Len(c.whenValues) = 2
          /\ c.elseValue = NilValue
          /\ Len(CaseActualValues(c)) = 6
    /\ last.qargs = <<1, 4, 5, 9>>

(***************************************************************************)
(* DbMap.WithTX in steps.  WithTXBegin is WithTX up to the call of fn: it  *)
(* calls Begin, and on an error calls Rollback on the transaction Begin    *)
(* returned, which is nil, so that the call ends in a nil pointer          *)
(* dereference.  Begin fails when the database does not begin a            *)
(* transaction ("beginErr") or when setting the lock timeout fails         *)
(* ("execErr", after which Begin rolls the transaction back itself).       *)
(* While fn runs, it uses a plan made by Transaction.Query.                *)
(* HandlerReturns and HandlerPanics are the rest of WithTX, from the end   *)
(* of fn.  A panic of the plan inside fn is a panic of fn.  recover()      *)
(* yields nil for panic(nil) before Go 1.21 and a *runtime.PanicNilError   *)
(* from Go 1.21 on (recoverNil).                                           *)
(***************************************************************************)
BeginOutcomes == {"ok", "beginErr", "execErr"}

ErrHandler == "handler error"
ErrCommit == "commit error"
ErrNilDeref == "nil pointer dereference: tx.Rollback"

PlanVars == <<dialect, target, table, quotedTable, Errors, colMap, joins,
              filters, assignCols, assignBindVars, assignArgs, orderBy,
              groupBy, limit, offset, args, argLen, panicked, last, sinceJoin,
              iface, argLock, goroutines, distinctFields, forUpdate,
              forUpdateOf>>

WithTXBegin(outcome) ==
    /\ withTX.pc = "idle"
    /\ withTX' =
         IF outcome # "ok"
         THEN [withTX EXCEPT !.pc = "panicked",
                             !.tx = IF outcome = "execErr" THEN "rolledBack"
                                    ELSE "none",
                             !.result = ErrNilDeref]
         ELSE [withTX EXCEPT !.pc = "handler", !.tx = "open", !.calls = @ + 1]
    /\ UNCHANGED PlanVars

InHandler(step) == withTX.pc = "handler" /\ panicked = "" /\ step

HandlerReturns(err, commitOk) ==
    /\ withTX.pc = "handler"
    /\ panicked = ""
    /\ goroutines.writer.pc = "idle"
    /\ withTX' =
         IF err # NoErr
         THEN [withTX EXCEPT !.pc = "returned", !.handler = "error",
                             !.tx = "rolledBack", !.rollbacks = @ + 1,
                             !.result = err]
         ELSE IF commitOk
         THEN [withTX EXCEPT !.pc = "returned", !.handler = "nil",
                             !.tx = "committed", !.commits = @ + 1,
                             !.result = NoErr]
         ELSE [withTX EXCEPT !.pc = "returned", !.handler = "nil",
                             !.tx = "rolledBack", !.commits = @ + 1,
                             !.rollbacks = @ + 1, !.result = ErrCommit]
    /\ UNCHANGED PlanVars

HandlerPanics(value, recoverNil) ==
    /\ withTX.pc = "handler"
    /\ goroutines.writer.pc \in {"idle", "panicked"}
    /\ panicked # "" => value = panicked
    /\ withTX' =
         IF value = "nil" /\ recoverNil
         THEN [withTX EXCEPT !.pc = "returned", !.handler = "panic",
                             !.result = NoErr]
         ELSE [withTX EXCEPT !.pc = "panicked", !.handler = "panic",
                             !.tx = "rolledBack", !.rollbacks = @ + 1,
                             !.result = value]
    /\ UNCHANGED PlanVars

PanicValues == {"boom", "nil"}

NextTX ==
    \/ \E outcome \in BeginOutcomes : WithTXBegin(outcome)
    \/ InHandler(Where(<<>>))
    \/ \E e \in EqualInputs : InHandler(Equal(e[1], e[2]))
    \/ InHandler(Assign(AName, 7))
    \/ InHandler(Select)
    \/ InHandler(Insert)
    \/ InHandler(Update)
    \/ InHandler(Delete)
    \/ InHandler(Count)
    \/ InHandler(Truncate)
    \/ InHandler(WriterStoreJoin)
    \/ InHandler(WriterStep)
    \/ \E err \in {NoErr, ErrHandler}, commitOk \in BOOLEAN :
          HandlerReturns(err, commitOk)
    \/ \E value \in PanicValues \cup ({panicked} \ {""}),
          recoverNil \in BOOLEAN : HandlerPanics(value, recoverNil)

SpecTX == InitBind /\ [][NextTX]_vars

(***************************************************************************)
(* C27: when a call of WithTX has ended, the handler was called exactly    *)
(* once; Commit was called if and only if the handler returned nil; if the *)
(* handler returned an error the transaction was rolled back and WithTX    *)
(* returned that error; if the handler panicked the transaction was rolled *)
(* back and the panic raised again; and the transaction is committed or    *)
(* rolled back.                                                            *)
(***************************************************************************)
C27_WithTXOutcome ==
    withTX.pc \in {"returned", "panicked"} =>
        /\ withTX.calls = 1
        /\ withTX.commits = 1 <=> withTX.handler = "nil"
        /\ withTX.handler = "error"
           => /\ withTX.tx = "rolledBack"
              /\ withTX.pc = "returned"
              /\ withTX.result = ErrHandler
        /\ withTX.handler = "panic"
           => /\ withTX.tx = "rolledBack"
              /\ withTX.pc = "panicked"
        /\ withTX.tx \in {"committed", "rolledBack"}

(***************************************************************************)
(* C28: the SELECT list of an executed Select is "select " followed by the *)
(* selected columns of the column map, in map order, each as               *)
(* table.column AS alias, with one comma between two columns and none      *)
(* before the first or after the last.                                     *)
(***************************************************************************)
SelectedColumns ==
    LET selected == SelectSeq(colMap, LAMBDA m : m.doSelect)
    IN  [n \in 1..Len(selected) |->
           Txt(selected[n].quotedTable \o "." \o selected[n].quotedColumn)
           \o (IF selected[n].alias # "" THEN Txt(" AS " \o selected[n].alias)
               ELSE <<>>)]

C28_SelectListCommas ==
    (last.op = "Select" /\ Executed)
        => LET list == Txt("select ") \o JoinWith(SelectedColumns, Txt(","))
           IN  /\ Len(list) < Len(last.query)
               /\ SubSeq(last.query, 1, Len(list)) = list
               /\ last.query[Len(list) + 1].s # ","

(***************************************************************************)
(* C29: a call of Filter or of a comparison method (Equal, In) on a plan   *)
(* that has no active filter combinator yet (neither Where nor Join was    *)
(* called) does not panic and leaves the plan with a combinator that holds *)
(* the condition.                                                          *)
(***************************************************************************)
C29_FilterAllocatesOnDemand ==
    [][(/\ filters = NilFilter
        /\ \/ \E fs \in FilterLists : Filter(fs)
           \/ \E e \in EqualInputs : Equal(e[1], e[2])
           \/ \E i \in InInputs : In(i[1], i[2]))
       => (panicked' = "" /\ filters' # NilFilter)]_vars

(***************************************************************************)
(* C30: a fluent call on a plan whose active combinator is the WHERE       *)
(* filter and holds a condition removes none of its conditions: after the  *)
(* call the plan still has a WHERE filter, and every condition it held is  *)
(* among its conditions.                                                   *)
(***************************************************************************)
C30_WhereConditionsKept ==
    [][(/\ filters # NilFilter
        /\ filters.kind = "and"
        /\ Len(filters.subFilters) > 0
        /\ last.op = "none" /\ last'.op = "none"
        /\ panicked = "" /\ panicked' = "")
       => (/\ filters' # NilFilter
           /\ filters'.kind = "and"
           /\ \A n \in 1..Len(filters.subFilters) :
                 \E m \in 1..Len(filters'.subFilters) :
                    filters'.subFilters[m] = filters.subFilters[n])]_vars

(***************************************************************************)
(* Plans with up to MaxFoldJoins joins, run as UPDATE and DELETE.          *)
(***************************************************************************)
FoldOnLists == {<<filtersEqual(BAID, AID)>>, <<filtersEqual(BVal, Lit(2))>>}

FoldWhereLists == {<<>>, <<filtersEqual(AName, Lit(1))>>}

NextFold ==
    \/ \E t \in JoinTargets : JoinTypeWithin(MaxFoldJoins, "inner", t)
    \/ \E fs \in FoldOnLists : On(fs)
    \/ \E fs \in FoldWhereLists : Where(fs)
    \/ Assign(AName, 7)
    \/ Update
    \/ Delete
    \/ WriterStep

SpecFold == InitBind /\ [][NextFold]_vars

(* The condition text of each join with conditions, in join order, the    *)
(* values resolved from the argument list as onwards.                      *)
RECURSIVE JoinConditionTexts(_, _)
JoinConditionTexts(js, as) ==
    IF js = <<>> THEN <<>>
    ELSE The({ (IF Head(js).subFilters = <<>> THEN <<>>
                ELSE <<FilterWhere(Head(js), r.sqls)>>)
               \o JoinConditionTexts(Tail(js), r.args)
               : r \in {resolveAll(ActualValues(Head(js)), as)} })

(***************************************************************************)
(* C31: the statement Update or Delete sends for a plan with two or more   *)
(* joins that have conditions ends with those conditions joined by         *)
(* " and ", preceded by " and " when the plan has WHERE conditions of its  *)
(* own and by " where " when it has none.                                  *)
(***************************************************************************)
C31_JoinConditionsConjoined ==
    (/\ last.op \in {"Update", "Delete"} /\ Executed
     /\ Len(JoinConditionTexts(joins, resetArgs)) >= 2)
        => EndsWith(last.query,
              (IF filters.kind = "and" /\ filters.subFilters # <<>>
               THEN Txt(" and ") ELSE Txt(" where "))
              \o JoinWith(JoinConditionTexts(joins, resetArgs), Txt(" and ")))

(* What a terminal call hands to the caller and to the executor.           *)
Statement(out) ==
    [err |-> out.err, exec |-> out.exec, query |-> out.query, qargs |-> out.qargs]

OutcomeOf(op) ==
    CASE op = "Select" -> SelectOutcome
      [] op = "Count" -> CountOutcome
      [] op = "Insert" -> InsertOutcome
      [] op = "Update" -> UpdateOutcome
      [] op = "Delete" -> DeleteOutcome
      [] op = "Truncate" -> TruncateOutcome

(***************************************************************************)
(* C32: when a terminal has been called and a terminal call (of the same   *)
(* or of another terminal) follows it and returns, calling the first       *)
(* terminal again yields the error, SQL text and argument slice of its     *)
(* earlier call: nothing of the call in between is carried over.           *)
(***************************************************************************)
C32_TerminalsRepeatable ==
    [][(/\ last.op # "none" /\ panicked = ""
        /\ last'.op # "none" /\ panicked' = "")
          => \A op \in TerminalOps :
                last.op = op
                   => /\ OutcomeOf(op)'.panic = ""
                      /\ Statement(OutcomeOf(op))' =
                            [err |-> last.err, exec |-> last.exec,
                             query |-> last.query, qargs |-> last.qargs]]_vars

(***************************************************************************)
(* Plans that receive up to MaxAssignCalls assignments, of two columns and *)
(* two values, mixed with assignments that fail.                           *)
(***************************************************************************)
AssignCallInputs ==
    {<<AName, 7>>, <<AID, 8>>, <<AName, 8>>, <<ATr, 7>>, <<Unmapped, 8>>}

NextAssign ==
    \/ \E a \in AssignCallInputs : AssignWithin(MaxAssignCalls, a[1], a[2])
    \/ Where(<<>>)
    \/ Insert
    \/ Update
    \/ WriterStep

SpecAssign == InitBind /\ [][NextAssign]_vars

(***************************************************************************)
(* C33: the assignment columns, placeholders and values always have the    *)
(* same length, and the i-th placeholder (from 0) is BindVar(i) for the    *)
(* i-th value; an Assign that succeeds appends its column, BindVar(old     *)
(* length) and its value to the three lists, and every other call, a       *)
(* failing Assign included, leaves the three lists as they are.            *)
(***************************************************************************)
C33_AssignListsAligned ==
    /\ [](/\ Len(assignCols) = Len(assignArgs)
          /\ Len(assignBindVars) = Len(assignArgs)
          /\ \A n \in 1..Len(assignArgs) :
                assignBindVars[n] = BindVar(dialect, n - 1, assignArgs[n]))
    /\ [][\/ UNCHANGED <<assignCols, assignBindVars, assignArgs>>
          \/ /\ Errors' = Errors
             /\ \E a \in AssignCallInputs :
                   /\ LocateColumn(colMap, a[1]).err = NoErr
                   /\ assignCols' =
                         Append(assignCols, LocateColumn(colMap, a[1]).column)
                   /\ assignBindVars' =
                         Append(assignBindVars,
                                BindVar(dialect, Len(assignArgs), a[2]))
                   /\ assignArgs' = Append(assignArgs, a[2])]_vars

C33_Witness ==
    /\ assignArgs = <<7, 8, 8>>
    /\ Len(assignCols) = 3 /\ assignCols[1] # assignCols[2]
    /\ assignCols[3] = assignCols[1]
    /\ Errors = <<ErrTransient, ErrFieldNotFound>>
    /\ last.op = "Update" /\ last.err = ErrTransient

(***************************************************************************)
(* C34: a statement sent by a terminal call of a plan used inside the      *)
(* handler of WithTX (a plan of Transaction.Query, whose executor is the   *)
(* transaction) goes to that executor, whatever the terminal is.           *)
(***************************************************************************)
C34_StatementsInsideTransaction ==
    (withTX.tx = "open" /\ last.op \in TerminalOps /\ Executed)
        => last.exec = "executor"

(***************************************************************************)
(* C35: a call of WithTX that ended without the handler having been        *)
(* called, which is the case when beginning the transaction failed, has    *)
(* returned an error to its caller: it did not panic on the nil            *)
(* transaction.                                                            *)
(***************************************************************************)
C35_BeginFailureReturned ==
    (withTX.pc \in {"returned", "panicked"} /\ withTX.calls = 0)
        => /\ withTX.pc = "returned"
           /\ withTX.result \notin {NoErr, ErrNilDeref}

(***************************************************************************)
(* JoinQueryPlan and AssignQueryPlan: structs that embed *QueryPlan and    *)
(* have no field of their own.  JoinQueryPlan.References and               *)
(* AssignQueryPlan.Assign hold the code that the QueryPlan methods of the  *)
(* same names reach through a wrapper they build around the plan; the body *)
(* of every other method a wrapper declares is one call of a method of the *)
(* embedded plan, followed by the return of the wrapper.                   *)
(***************************************************************************)
WrapperTypes == {"*JoinQueryPlan", "*AssignQueryPlan"}

(* The fluent methods a wrapper type declares on top of the promoted ones. *)
WrapperMethods(receiver) ==
    IF receiver = "*JoinQueryPlan"
    THEN {"References", "In", "Like", "Equal", "NotEqual", "Less",
          "LessOrEqual", "Greater", "GreaterOrEqual", "Null", "NotNull",
          "True", "False"}
    ELSE {"Assign", "Where", "Filter", "In", "Like", "Equal", "NotEqual",
          "Less", "LessOrEqual", "Greater", "GreaterOrEqual", "Null",
          "NotNull", "True", "False"}

(* A wrapper whose Equal and NotEqual reach each other's plan method.      *)
DelegateCrossed(receiver, method) ==
    CASE method = "Equal" -> "NotEqual"
      [] method = "NotEqual" -> "Equal"
      [] OTHER -> method

(* The method X of the call plan.QueryPlan.X(...) in the body of           *)
(* receiver's method, for the methods whose body is that call.             *)
Delegate(receiver, method) ==
    IF receiver = "*JoinQueryPlan"
    THEN CASE method = "In" -> "In"
           [] method = "Like" -> "Like"
           [] method = "Equal" -> "Equal"
           [] method = "NotEqual" -> "NotEqual"
           [] method = "Less" -> "Less"
           [] method = "LessOrEqual" -> "LessOrEqual"
           [] method = "Greater" -> "Greater"
           [] method = "GreaterOrEqual" -> "GreaterOrEqual"
           [] method = "Null" -> "Null"
           [] method = "NotNull" -> "NotNull"
           [] method = "True" -> "True"
           [] method = "False" -> "False"
    ELSE CASE method = "Where" -> "Where"
           [] method = "Filter" -> "Filter"
           [] method = "In" -> "In"
           [] method = "Like" -> "Like"
           [] method = "Equal" -> "Equal"
           [] method = "NotEqual" -> "NotEqual"
           [] method = "Less" -> "Less"
           [] method = "LessOrEqual" -> "LessOrEqual"
           [] method = "Greater" -> "Greater"
           [] method = "GreaterOrEqual" -> "GreaterOrEqual"
           [] method = "Null" -> "Null"
           [] method = "NotNull" -> "NotNull"
           [] method = "True" -> "True"
           [] method = "False" -> "False"

(* The call plan.method(...) on the plan itself, for the methods that take *)
(* filters (here the one filter Equal(fieldPtr, value)), a field pointer   *)
(* and a value, a field pointer only, or nothing.                          *)
QueryPlanCall(method, fieldPtr, value) ==
    CASE method = "Where" -> Where(<<filtersEqual(fieldPtr, value)>>)
      [] method = "Filter" -> Filter(<<filtersEqual(fieldPtr, value)>>)
      [] method = "Assign" -> Assign(fieldPtr, value.n)
      [] method = "References" -> References
      [] method = "In" -> In(fieldPtr, <<value>>)
      [] method \in {"Null", "NotNull", "True", "False"} ->
            FieldTest(method, fieldPtr)
      [] OTHER -> Compare(method, fieldPtr, value)

(* receiver.method(...), receiver being a wrapper around the plan.         *)
WrapperCall(receiver, method, fieldPtr, value) ==
    /\ method \in WrapperMethods(receiver)
    /\ CASE receiver = "*AssignQueryPlan" /\ method = "Assign" ->
               AssignWithin(MaxAssigns, fieldPtr, value.n)
         [] receiver = "*JoinQueryPlan" /\ method = "References" ->
               JoinReferences
         [] OTHER -> QueryPlanCall(Delegate(receiver, method), fieldPtr, value)

WrapInputs == {<<AName, Lit(1)>>}

(* SpecWrap follows a plan under construction whose first call is a Join   *)
(* or a Where.                                                             *)
NextWrap ==
    \/ \E t \in JoinTargets : filters = NilFilter /\ Join(t)
    \/ filters = NilFilter /\ Where(<<>>)
    \/ Assign(AName, 7)
    \/ \E receiver \in WrapperTypes, e \in WrapInputs :
          \E method \in WrapperMethods(receiver) :
             WrapperCall(receiver, method, e[1], e[2])

SpecWrap == InitBind /\ [][NextWrap]_vars

C37_ErrorsOnlyGrow ==
    /\ [][/\ Len(Errors') >= Len(Errors)
          /\ SubSeq(Errors', 1, Len(Errors)) = Errors]_vars
    /\ []((panicked = "" /\ last.op \in TerminalOps /\ Errors # <<>>)
             => last.err = Errors[1])

(***************************************************************************)
(* C38: in the statement of an executed Select or Delete, a plan whose     *)
(* WHERE filter is an AND with no sub-filter has no WHERE keyword, and no  *)
(* separator or opening parenthesis is followed at once by a separator or  *)
(* a closing parenthesis, nor does a separator directly follow the WHERE   *)
(* keyword: an empty combinator among the operands leaves no trace.        *)
(***************************************************************************)
C38_EmptyCombinatorSilent ==
    (last.op \in {"Select", "Delete"} /\ Executed)
        => LET q == last.query
               separators == {" and ", " or "}
           IN  /\ (filters.kind = "and" /\ filters.subFilters = <<>>)
                     => ~HasText(q, " where ")
               /\ \A n \in 1..(Len(q) - 1) :
                     q[n].s \in separators \cup {"(", " where "}
                        => q[n + 1].s \notin separators \cup {")"}

(***************************************************************************)
(* getArgs, appendArgs and resetArgs, statement by statement, run by       *)
(* concurrent goroutines.  The nil interface value of a slot that make     *)
(* created and the loop did not fill is written 0.                         *)
(***************************************************************************)
ArgValues == {1}

ReaderStep(r, from, to) ==
    /\ goroutines.reader[r].pc = from
    /\ goroutines' = [goroutines EXCEPT !.reader[r].pc = to]

(* A goroutine calls plan.getArgs().                                       *)
GetArgsCall(r) ==
    /\ goroutines.reader[r].pc = "idle"
    /\ goroutines' = [goroutines EXCEPT !.reader[r].pc = "rlock",
                                        !.reader[r].seen = {goroutines.committed}]
    /\ UNCHANGED <<args, argLen, argLock>>
    /\ ArgsFrame

(* plan.argLock.RLock() *)
GetArgsRLock(r) ==
    /\ CanRLock
    /\ ReaderStep(r, "rlock", "make")
    /\ argLock' = [argLock EXCEPT !.readers = @ + 1]
    /\ UNCHANGED <<args, argLen>>
    /\ ArgsFrame

(* args := make([]interface{}, len(plan.args)) *)
GetArgsMake(r) ==
    /\ goroutines.reader[r].pc = "make"
    /\ goroutines' = [goroutines EXCEPT !.reader[r].pc = "range",
                                        !.reader[r].n = Len(args)]
    /\ UNCHANGED <<args, argLen, argLock>>
    /\ ArgsFrame

(* for i, v := range plan.args { args[i] = v }: the slice is read when the *)
(* loop starts; an index beyond the made slice panics.                     *)
GetArgsRange(r) ==
    /\ goroutines.reader[r].pc = "range"
    /\ goroutines' =
         IF Len(args) > goroutines.reader[r].n
         THEN [goroutines EXCEPT !.reader[r].pc = "panicked"]
         ELSE [goroutines EXCEPT
                 !.reader[r].pc = "runlock",
                 !.reader[r].result =
                     [i \in 1..goroutines.reader[r].n |->
                         IF i <= Len(args) THEN args[i] ELSE 0]]
    /\ UNCHANGED <<args, argLen, argLock>>
    /\ ArgsFrame

(* plan.argLock.RUnlock(); return args *)
GetArgsRUnlock(r) ==
    /\ ReaderStep(r, "runlock", "returned")
    /\ argLock' = [argLock EXCEPT !.readers = @ - 1]
    /\ UNCHANGED <<args, argLen>>
    /\ ArgsFrame

ArgsWhereLists == {<<filtersEqual(AName, Lit(1))>>}

NextArgs ==
    \/ Assign(AName, 7)
    \/ \E fs \in ArgsWhereLists : Where(fs)
    \/ \E r \in Readers : GetArgsCall(r)
    \/ \E r \in Readers : GetArgsRLock(r)
    \/ \E r \in Readers : GetArgsMake(r)
    \/ \E r \in Readers : GetArgsRange(r)
    \/ \E r \in Readers : GetArgsRUnlock(r)
    \/ Select
    \/ Count
    \/ Insert
    \/ Update
    \/ Delete
    \/ \E val \in ArgValues : ArgOrColumn(Lit(val))
    \/ WriterStoreJoin
    \/ WriterStep

SpecArgs == InitBind /\ [][NextArgs]_vars

(***************************************************************************)
(* C39: a call of getArgs does not panic and returns an argument list the  *)
(* plan held between two writes at some moment of the call (the list       *)
(* before or the list after each appendArgs or resetArgs that ran          *)
(* meanwhile, never a list in the middle of one), and what it returned     *)
(* stays as it is whatever is written to the plan's arguments afterwards.  *)
(***************************************************************************)
C39_GetArgsSnapshot ==
    /\ [](\A r \in Readers :
             /\ goroutines.reader[r].pc # "panicked"
             /\ goroutines.reader[r].pc \in {"runlock", "returned"}
                   => goroutines.reader[r].result \in goroutines.reader[r].seen)
    /\ [][\A r \in Readers :
             goroutines.reader[r].pc = "returned"
                => goroutines'.reader[r].result = goroutines.reader[r].result]_vars

C39_Witness ==
    \E r \in Readers :
        /\ goroutines.reader[r].pc = "returned"
        /\ Cardinality(goroutines.reader[r].seen) >= 2
        /\ goroutines.reader[r].result # <<>>
        /\ goroutines.reader[r].result # args
        /\ goroutines.writer.pc = "idle"

====
